---- MODULE Spec2Model ----
(***************************************************************************)
(* A model of the document-quality / identity-classification pipeline:     *)
(*   modules/identity_detection.py   classifier, adjuster, corrector       *)
(*   modules/document_segmentation.py page segmenter                       *)
(*   utils/document_processor.py, checks/*.py, api.py.py  extraction, OCR  *)
(*                                                                         *)
(* Numbers: confidences are kept in hundredths of a point (10000 = 100.0), *)
(* ink ratios in thousandths (50 = 0.05), factors in percent (75 = 0.75).  *)
(* Binary floating-point rounding is not modelled.                         *)
(***************************************************************************)
EXTENDS Integers, Sequences, FiniteSets, TLC

VARIABLES
    \* identity_detection.py: the classification list and the pipeline stage
    cls, stage,
    \* _apply_frequency_based_adjustment applied to one record and any table
    adjIn, adjKf, adjCfg, adjOut, adjPc,
    \* segment_documents_on_page: the page, the padding, the program position,
    \* the argument and result of remove_overlapping_contours, the padded
    \* segments, the returned segments and the exception raised
    segImg, segPadPct, segPc, segCand, segKept, segPadded, segOut, segExc,
    \* the OCR engine, the files of the run, the mode and language of a call,
    \* the index of the file in work, the rows collected so far, the outcome
    \* of a single call, and the program position
    batEngine, batFiles, batMode, batLang, batIdx, batResults, batOut, batPc

idVars  == <<cls, stage>>
adjVars == <<adjIn, adjKf, adjCfg, adjOut, adjPc>>
segVars == <<segImg, segPadPct, segPc, segCand, segKept, segPadded, segOut, segExc>>
batVars == <<batEngine, batFiles, batMode, batLang, batIdx, batResults, batOut, batPc>>
vars    == <<cls, stage, adjIn, adjKf, adjCfg, adjOut, adjPc,
             segImg, segPadPct, segPc, segCand, segKept, segPadded, segOut, segExc,
             batEngine, batFiles, batMode, batLang, batIdx, batResults, batOut, batPc>>

\* what the operations of one component leave alone
exceptId  == <<adjVars, segVars, batVars>>
exceptAdj == <<idVars, segVars, batVars>>
exceptSeg == <<idVars, adjVars, batVars>>
exceptBat == <<idVars, adjVars, segVars>>

(***************************************************************************)
(* Generic helpers                                                         *)
(***************************************************************************)
Min2(a, b) == IF a < b THEN a ELSE b
Max2(a, b) == IF a > b THEN a ELSE b

RECURSIVE SumOver(_, _)
\* sum(f[x] for x in S)
SumOver(f, S) ==
    IF S = {} THEN 0
    ELSE LET x == CHOOSE y \in S : TRUE IN f[x] + SumOver(f, S \ {x})

Range(s) == { s[i] : i \in DOMAIN s }

(***************************************************************************)
(* Text.  A text is a set of lines, each a sequence of words, plus a       *)
(* number of '<' characters and a number of other (filler) characters.     *)
(* str.lower() maps the capitalised words to their lower-case form;        *)
(* `kw in text` is character-level substring matching: the first word of   *)
(* the keyword may be the tail of a text word, the last word its head.     *)
(***************************************************************************)
Lower(w) ==
    CASE w = "IDENTITY" -> "identity"
      [] w = "CARD"     -> "card"
      [] w = "Aadhaar"  -> "aadhaar"
      [] w = "FIRMA"    -> "firma"
      [] OTHER          -> w

LowerLine(l) == [i \in DOMAIN l |-> Lower(l[i])]

\* len(word) for the words of the vocabulary
WordLen(w) ==
    CASE w \in {"d"}                                   -> 1
      [] w \in {"di", "of", "qr"}                      -> 2
      [] w \in {"mrz"}                                 -> 3
      [] w \in {"card", "name", "nome", "code", "CARD", "foto"} -> 4
      [] w \in {"carta", "uidai", "firma", "FIRMA", "luogo", "place", "birth", "sesso", "scita", "photo"} -> 5
      [] w \in {"aadhaar", "Aadhaar", "cognome", "surname", "nascita", "barcode"} -> 7
      [] w \in {"identity", "IDENTITY", "identita", "passport", "scadenza"} -> 8
      [] w \in {"signature"}                           -> 9
      [] OTHER                                         -> 6

\* a is a proper head / tail / inner part of the word b
ProperPrefix == { <<"d", "di">> }
ProperSuffix == { <<"nome", "cognome">>, <<"name", "surname">> }
IsPrefix(a, b) == a = b \/ <<a, b>> \in ProperPrefix
IsSuffix(a, b) == a = b \/ <<a, b>> \in ProperSuffix
IsInfix(a, b)  == IsPrefix(a, b) \/ IsSuffix(a, b)

\* keyword kw (lower case) occurs in line l (lower case) at offset o
MatchAt(kw, l, o) ==
    /\ o + Len(kw) <= Len(l)
    /\ IF Len(kw) = 1 THEN IsInfix(kw[1], l[o + 1])
       ELSE /\ IsSuffix(kw[1], l[o + 1])
            /\ IsPrefix(kw[Len(kw)], l[o + Len(kw)])
            /\ \A i \in 2..(Len(kw) - 1) : kw[i] = l[o + i]

\* kw in text_lower, for text_lower = text.lower() and kw already lower case
InLower(kw, text) ==
    \E l \in text.lines : \E o \in 0..(Len(l) - 1) : MatchAt(kw, LowerLine(l), o)

\* keyword.lower() in text_lower
ContainsKw(kw, text) == InLower(LowerLine(kw), text)

LineLen(l) == SumOver([i \in DOMAIN l |-> WordLen(l[i])], DOMAIN l) + Len(l) - 1

\* len(text_content): words, one separator per word gap and line, '<' and filler
TextLen(text) ==
    LET ls == text.lines
        n  == Cardinality(ls)
    IN  SumOver([l \in ls |-> LineLen(l)], ls) + (IF n > 0 THEN n - 1 ELSE 0)
        + text.lt + text.pad

\* text_raw.count('<')
CountLt(text) == text.lt

(***************************************************************************)
(* Configuration (config.json, read through modules/config_loader.py).     *)
(* Three document types are declared, in this order; the third has no      *)
(* member in the DocumentType enum.  Keywords are listed per language.     *)
(***************************************************************************)
DocTypeOrder == <<"residential_id", "aadhaar", "passport">>
DocTypes     == Range(DocTypeOrder)
DocSideOrder == <<"front", "back">>
DocSides     == Range(DocSideOrder)
Languages    == {"en", "other", "hi"}

\* get_all_document_type_keywords(): type -> language -> keywords
document_type_keywords ==
    [t \in DocTypes |->
        CASE t = "residential_id" ->
                [en |-> {<<"identity", "card">>},
                 other |-> {<<"carta", "di", "identita">>}, hi |-> {}]
          [] t = "aadhaar" ->
                [en |-> {<<"Aadhaar">>}, other |-> {}, hi |-> {<<"uidai">>}]
          [] OTHER ->
                [en |-> {<<"passport">>}, other |-> {}, hi |-> {}]]

\* get_all_document_side_keywords(): side -> language -> keywords
document_side_keywords ==
    [s \in DocSides |->
        IF s = "front"
        THEN [en |-> {<<"name">>, <<"photo">>, <<"gender">>}, other |-> {<<"nome">>}, hi |-> {}]
        ELSE [en |-> {<<"signature">>, <<"expiry">>, <<"barcode">>},
              other |-> {<<"firma">>}, hi |-> {}]]

\* the values of the DocumentType enum
DocumentTypeValues == {"residential_id", "aadhaar", "unknown"}

(***************************************************************************)
(* identity_detection.py: feature extraction and the three classifiers     *)
(***************************************************************************)
\* _has_keywords: any keyword of any language occurs in the text
HasKeywords(text, groups) ==
    \E lang \in Languages : \E kw \in groups[lang] : ContainsKw(kw, text)

\* _extract_features, the text part; ink and ocr are the measured values
ExtractFeatures(text, ink, ocr) ==
    [ink_ratio      |-> ink,
     ocr_confidence |-> ocr,
     text_length    |-> TextLen(text),
     typeFlag |-> [t \in DocTypes |-> HasKeywords(text, document_type_keywords[t])],
     sideFlag |-> [s \in DocSides |-> HasKeywords(text, document_side_keywords[s])]]

\* the score _classify_document_type gives one configured type
TypeScore(t, text, f) ==
    2 * Cardinality({kw \in document_type_keywords[t].en : ContainsKw(kw, text)})
    + Cardinality({kw \in document_type_keywords[t].other : ContainsKw(kw, text)})
    + (IF f.typeFlag[t] THEN 3 ELSE 0)

RECURSIVE BestType(_, _, _, _, _)
\* the loop of _classify_document_type: <<best_match, best_score>> after
\* the types i..n, a later type winning only with a strictly higher score
BestType(i, text, f, best, bestScore) ==
    IF i > Len(DocTypeOrder) THEN <<best, bestScore>>
    ELSE LET t == DocTypeOrder[i]
             s == TypeScore(t, text, f)
         IN  IF s > bestScore THEN BestType(i + 1, text, f, t, s)
             ELSE BestType(i + 1, text, f, best, bestScore)

\* DocumentType(best_match): the enum member, UNKNOWN on ValueError
ClassifyDocumentType(text, f) ==
    LET r == BestType(1, text, f, "none", 0)
    IN  IF r[1] = "residential_id" THEN "residential_id"
        ELSE IF r[1] = "aadhaar" THEN "aadhaar"
        ELSE IF r[2] > 0
             THEN (IF r[1] \in DocumentTypeValues THEN r[1] ELSE "unknown")
             ELSE "unknown"

\* side_detection_weights defaults, in tenths
EnWeight      == 20
OtherWeight   == 10
FeatureWeight == 30
ModerateMin   == 30
ModerateMax   == 70
ModerateMulPct == 150

\* the score _classify_document_side gives one side, in thousandths
SideScoreFrontOnly(s, text, f) ==
    LET mul == IF s = "front" /\ ModerateMin <= f.ocr_confidence /\ f.ocr_confidence <= ModerateMax
               THEN ModerateMulPct ELSE 100
    IN  mul * ( EnWeight * Cardinality({kw \in document_side_keywords[s].en : ContainsKw(kw, text)})
              + OtherWeight * Cardinality({kw \in document_side_keywords[s].other : ContainsKw(kw, text)})
              + (IF f.sideFlag[s] THEN FeatureWeight ELSE 0) )

SideScore(s, text, f) ==
    LET mul == IF ModerateMin <= f.ocr_confidence /\ f.ocr_confidence <= ModerateMax
               THEN ModerateMulPct ELSE 100
    IN  mul * ( EnWeight * Cardinality({kw \in document_side_keywords[s].en : ContainsKw(kw, text)})
              + OtherWeight * Cardinality({kw \in document_side_keywords[s].other : ContainsKw(kw, text)})
              + (IF f.sideFlag[s] THEN FeatureWeight ELSE 0) )

StrongFront == {<<"luogo", "di", "nascita">>, <<"luogo", "d">>, <<"nome", "e", "cognome">>,
                <<"sesso">>, <<"cittadinanza">>, <<"numero", "di">>}
StrongBack  == {<<"firma">>, <<"scadenza">>, <<"valido">>, <<"codice", "qr">>,
                <<"qr", "code">>, <<"mrz">>}

\* a variant of the side rule in which the higher score wins however close
ClassifyDocumentSideNoMargin(text, f) ==
    LET front == SideScore("front", text, f)
        back  == SideScore("back", text, f)
    IN  IF front > 0 /\ back > 0 THEN (IF back > front THEN "back" ELSE "front")
        ELSE IF front > 0 THEN "front"
        ELSE IF back > 0 THEN "back"
        ELSE "unknown"

\* _classify_document_side
ClassifyDocumentSide(text, f) ==
    LET front == SideScore("front", text, f)
        back  == SideScore("back", text, f)
        hasStrongFront == \E w \in StrongFront : InLower(w, text)
        hasStrongBack  == \E w \in StrongBack : InLower(w, text)
    IN  IF front > 0 /\ back > 0
        THEN IF (IF front > back THEN front - back ELSE back - front) * 100
                    > 10 * Max2(front, back)
             THEN (IF front > back THEN "front" ELSE "back")
             ELSE IF hasStrongFront /\ ~hasStrongBack THEN "front"
             ELSE IF hasStrongBack /\ ~hasStrongFront THEN "back"
             ELSE "front"
        ELSE IF front > 0 THEN "front"
        ELSE IF back > 0 THEN "back"
        ELSE "unknown"

\* _calculate_classification_confidence before the final clamp, in hundredths
RawConfidence(f, docType, docSide) ==
    30 * f.ocr_confidence
    + (IF docType # "unknown"
          /\ ( (docType = "residential_id" /\ f.typeFlag["residential_id"])
               \/ (docType = "aadhaar" /\ f.typeFlag["aadhaar"]) )
       THEN 3000 ELSE 0)
    + (IF docSide # "unknown" /\ docSide \in {"front", "both"} /\ f.sideFlag["front"]
       THEN 2500 ELSE 0)
    + (IF docSide # "unknown" /\ docSide \in {"back", "both"} /\ f.sideFlag["back"]
       THEN 2500 ELSE 0)
    + (IF 50 <= f.ink_ratio /\ f.ink_ratio <= 800 THEN 1500
       ELSE IF f.ink_ratio < 10 THEN -2000
       ELSE IF f.ink_ratio > 900 THEN -1000 ELSE 0)
    + (IF 50 <= f.text_length /\ f.text_length <= 2000 THEN 1000
       ELSE IF f.text_length = 0 THEN -3000 ELSE 0)

CalculateClassificationConfidenceNoClamp(f, docType, docSide) ==
    RawConfidence(f, docType, docSide)

\* _calculate_classification_confidence: max(0, min(100, confidence))
CalculateClassificationConfidence(f, docType, docSide) ==
    Max2(0, Min2(10000, RawConfidence(f, docType, docSide)))

NoAnalysis == [has_mrz |-> FALSE, has_back_keywords |-> FALSE, has_front_keywords |-> FALSE,
               mrz_score |-> 0, back_score |-> 0, front_score |-> 0, set |-> FALSE]
NoAdjustment == [frequency_boost |-> 0, specificity_bonus |-> 0, consistency_bonus |-> 0,
                 quality_factor |-> 100, total_adjustment |-> 0,
                 matched_keyword_count |-> 0, cross_document_matches |-> 0, set |-> FALSE]

\* classify_identity_document on already measured ink / ocr values
ClassifyIdentityDocument(text, ink, ocr, pageNumber) ==
    LET f  == ExtractFeatures(text, ink, ocr)
        dt == ClassifyDocumentType(text, f)
        ds == ClassifyDocumentSide(text, f)
    IN  [page_number   |-> pageNumber,
         document_type |-> dt,
         document_side |-> ds,
         confidence    |-> CalculateClassificationConfidence(f, dt, ds),
         text_content  |-> text,
         features      |-> f,
         content_analysis      |-> NoAnalysis,
         confidence_adjustment |-> NoAdjustment,
         heuristic_applied     |-> "none"]

(***************************************************************************)
(* identity_detection.py: cross-document keyword frequency and adjustment  *)
(***************************************************************************)
AllKeywords(groups) == UNION { groups[lang] : lang \in Languages }

\* a variant of the entry that counts the other classifications only
FreqEntryOfOthers(classifications, hit, groups) ==
    [count |-> Cardinality(hit) - 1,
     specific_keywords |->
        { kw \in AllKeywords(groups) :
            \E i \in hit : ContainsKw(kw, classifications[i].text_content) }]

\* one entry of keyword_frequency['document_types'] / ['document_sides'],
\* hit being the classifications whose flag for the type / side is set
FreqEntry(classifications, hit, groups) ==
    [count |-> Cardinality(hit),
     specific_keywords |->
        { kw \in AllKeywords(groups) :
            \E i \in hit : ContainsKw(kw, classifications[i].text_content) }]

\* _analyze_keyword_frequency: an entry exists only for a matched type / side
AnalyzeKeywordFrequency(classifications) ==
    LET typeHit(t) == { i \in DOMAIN classifications : classifications[i].features.typeFlag[t] }
        sideHit(s) == { i \in DOMAIN classifications : classifications[i].features.sideFlag[s] }
    IN  [document_types |->
            [t \in { u \in DocTypes : typeHit(u) # {} } |->
                FreqEntry(classifications, typeHit(t), document_type_keywords[t])],
         document_sides |->
            [s \in { u \in DocSides : sideHit(u) # {} } |->
                FreqEntry(classifications, sideHit(s), document_side_keywords[s])],
         total_documents |-> Len(classifications)]

\* confidence_boost_settings: the defaults written in the code
DefaultBoost ==
    [single_match_boost |-> 5, double_match_boost |-> 10, triple_plus_match_boost |-> 15,
     single_word |-> 1, two_words |-> 2, three_plus_words |-> 3,
     max_specificity_bonus |-> 10, two_matches |-> 3, three_plus_matches |-> 5]

PoorOcrThreshold   == 30
PoorOcrFactor      == 50
MediumOcrThreshold == 50
MediumOcrFactor    == 75
PoorInkMin         == 50
PoorInkMax         == 800
PoorInkFactor      == 80
MaxConfidenceCap   == 10000

\* len(keyword.split()) scored with the per-word settings
WordBonus(kw, bs) ==
    IF Len(kw) >= 3 THEN bs.three_plus_words
    ELSE IF Len(kw) = 2 THEN bs.two_words
    ELSE bs.single_word

\* quality_factor in percent
QualityFactor(f) ==
    LET q == IF f.ocr_confidence < PoorOcrThreshold THEN PoorOcrFactor
             ELSE IF f.ocr_confidence < MediumOcrThreshold THEN MediumOcrFactor
             ELSE 100
    IN  IF f.ink_ratio < PoorInkMin \/ f.ink_ratio > PoorInkMax
        THEN (q * PoorInkFactor) \div 100 ELSE q

\* adjustment_details of _apply_frequency_based_adjustment
AdjustmentDetails(c, kf, bs) ==
    LET matchedTypes == { t \in DocTypes : c.features.typeFlag[t] }
        matchedSides == { s \in DocSides : c.features.sideFlag[s] }
        total  == Cardinality(matchedTypes) + Cardinality(matchedSides)
        inTab  == matchedTypes \cap DOMAIN kf.document_types
        cross  == IF inTab = {} THEN 0
                  ELSE CHOOSE m \in { kf.document_types[t].count : t \in inTab } :
                         \A t \in inTab : kf.document_types[t].count <= m
        freq   == IF Max2(cross, 0) >= 3 THEN bs.triple_plus_match_boost
                  ELSE IF Max2(cross, 0) = 2 THEN bs.double_match_boost
                  ELSE IF Max2(cross, 0) = 1 THEN bs.single_match_boost
                  ELSE 0
        spec   == SumOver([t \in inTab |->
                      LET ks == kf.document_types[t].specific_keywords
                      IN  SumOver([kw \in ks |-> WordBonus(kw, bs)], ks)], inTab)
        cons   == IF total >= 3 THEN bs.three_plus_matches
                  ELSE IF total >= 2 THEN bs.two_matches ELSE 0
        qf     == QualityFactor(c.features)
        capped == Min2(spec, bs.max_specificity_bonus)
    IN  [frequency_boost |-> freq, specificity_bonus |-> capped,
         consistency_bonus |-> cons, quality_factor |-> qf,
         total_adjustment |-> (freq + capped + cons) * qf,
         matched_keyword_count |-> total,
         cross_document_matches |-> Max2(cross, 0), set |-> TRUE]

ApplyFrequencyBasedAdjustmentNoCap(c, kf, bs) ==
    LET d == AdjustmentDetails(c, kf, bs)
    IN  [c EXCEPT !.confidence = c.confidence + d.total_adjustment,
                  !.confidence_adjustment = d]

\* _apply_frequency_based_adjustment: min(max_confidence, base + adjustment)
ApplyFrequencyBasedAdjustment(c, kf, bs) ==
    LET d == AdjustmentDetails(c, kf, bs)
    IN  [c EXCEPT !.confidence = Min2(MaxConfidenceCap, c.confidence + d.total_adjustment),
                  !.confidence_adjustment = d]

(***************************************************************************)
(* identity_detection.py: _apply_classification_heuristics                 *)
(***************************************************************************)
MrzMinCount    == 5
ShortTextLimit == 200
PairMinConfidence == 6500

back_keywords ==
    {<<"firma">>, <<"signature">>, <<"scadenza">>, <<"expiry">>, <<"valid", "until">>,
     <<"issued", "by">>, <<"rilasciato">>, <<"sigillo">>, <<"timbro">>, <<"qr", "code">>,
     <<"barcode">>, <<"mrz">>, <<"rilascio">>, <<"questura">>, <<"luogo", "d">>,
     <<"place", "of", "birth">>}

front_keywords ==
    {<<"identity", "card">>, <<"carta", "d">>, <<"nome">>, <<"cognome">>, <<"name">>,
     <<"surname">>, <<"data", "di", "nascita">>, <<"date", "of", "birth">>,
     <<"luogo", "di", "nascita">>, <<"place", "of", "birth">>, <<"foto">>, <<"photo">>,
     <<"immagine">>, <<"image">>, <<"sesso">>, <<"gender">>, <<"cittadinanza">>,
     <<"nationality">>, <<"genere">>, <<"domicilio">>, <<"residenza">>}

\* analyze_document_content
AnalyzeDocumentContent(text) ==
    LET back  == Cardinality({kw \in back_keywords : InLower(kw, text)})
        front == Cardinality({kw \in front_keywords : InLower(kw, text)})
    IN  [has_mrz |-> CountLt(text) > 0 /\ CountLt(text) >= MrzMinCount,
         has_back_keywords  |-> back > 0,
         has_front_keywords |-> front > 0,
         mrz_score   |-> CountLt(text),
         back_score  |-> back,
         front_score |-> front,
         set |-> TRUE]

\* first pass: the side of one classification from its own content
AnalyzeOne(c) ==
    LET a == AnalyzeDocumentContent(c.text_content)
        side == IF a.has_mrz THEN "back"
                ELSE IF a.has_back_keywords /\ a.back_score >= a.front_score THEN "back"
                ELSE IF a.has_front_keywords /\ a.front_score > a.back_score THEN "front"
                ELSE IF a.has_front_keywords
                     THEN (IF TextLen(c.text_content) < ShortTextLimit THEN "front" ELSE "back")
                ELSE c.document_side
    IN  [c EXCEPT !.content_analysis = a, !.document_side = side]

\* str(page_number).split('-')[0] for page_number "N-M"
PageKey(c) == c.page_number[1]

\* a variant of the type rule that hands the type over and leaves the
\* confidence as it is
PairTypesNoFloor(d1, d2) ==
    IF d1.document_type # "unknown" /\ d2.document_type = "unknown"
    THEN <<d1, [d2 EXCEPT !.document_type = d1.document_type,
                          !.heuristic_applied = "matched_with_pair"]>>
    ELSE IF d2.document_type # "unknown" /\ d1.document_type = "unknown"
    THEN <<[d1 EXCEPT !.document_type = d2.document_type,
                      !.heuristic_applied = "matched_with_pair"], d2>>
    ELSE <<d1, d2>>

\* second pass, the document types of a pair
PairTypes(d1, d2) ==
    IF d1.document_type = "unknown" /\ d2.document_type = "unknown"
    THEN IF d1.content_analysis.front_score + d1.content_analysis.back_score > 0
            \/ d2.content_analysis.front_score + d2.content_analysis.back_score > 0
         THEN <<[d1 EXCEPT !.document_type = "residential_id"],
                [d2 EXCEPT !.document_type = "residential_id"]>>
         ELSE <<d1, d2>>
    ELSE IF d1.document_type # "unknown" /\ d2.document_type = "unknown"
    THEN <<d1, [d2 EXCEPT !.document_type = d1.document_type,
                          !.confidence = Max2(d2.confidence, PairMinConfidence),
                          !.heuristic_applied = "matched_with_pair"]>>
    ELSE IF d2.document_type # "unknown" /\ d1.document_type = "unknown"
    THEN <<[d1 EXCEPT !.document_type = d2.document_type,
                      !.confidence = Max2(d1.confidence, PairMinConfidence),
                      !.heuristic_applied = "matched_with_pair"], d2>>
    ELSE <<d1, d2>>

\* a variant of the pair rule that completes any pair having one BACK
PairSidesForcing(d1, d2) ==
    IF d1.document_side = "back"
    THEN <<d1, [d2 EXCEPT !.document_side = "front"]>>
    ELSE IF d2.document_side = "back"
    THEN <<[d1 EXCEPT !.document_side = "front"], d2>>
    ELSE <<d1, d2>>

\* second pass, the document sides of a pair
PairSides(d1, d2) ==
    LET side1 == d1.document_side
        side2 == d2.document_side
    IN  IF side1 = "front" /\ side2 = "unknown"
        THEN <<d1, [d2 EXCEPT !.document_side = "back", !.heuristic_applied = "paired_front_back"]>>
        ELSE IF side2 = "front" /\ side1 = "unknown"
        THEN <<[d1 EXCEPT !.document_side = "back", !.heuristic_applied = "paired_front_back"], d2>>
        ELSE IF side1 = "back" /\ side2 = "unknown"
        THEN <<d1, [d2 EXCEPT !.document_side = "front", !.heuristic_applied = "paired_back_front"]>>
        ELSE IF side2 = "back" /\ side1 = "unknown"
        THEN <<[d1 EXCEPT !.document_side = "front", !.heuristic_applied = "paired_back_front"], d2>>
        ELSE IF side1 = "back" /\ side2 = "back"
        THEN IF d1.content_analysis.has_mrz /\ ~d2.content_analysis.has_mrz
             THEN <<d1, [d2 EXCEPT !.document_side = "front",
                                   !.heuristic_applied = "mrz_side_correction"]>>
             ELSE IF d2.content_analysis.has_mrz /\ ~d1.content_analysis.has_mrz
             THEN <<[d1 EXCEPT !.document_side = "front",
                               !.heuristic_applied = "mrz_side_correction"], d2>>
             ELSE <<d1, d2>>
        ELSE <<d1, d2>>

\* first pass over the whole list
FirstPass(classifications) ==
    [i \in DOMAIN classifications |-> AnalyzeOne(classifications[i])]

\* a variant of the second pass that leaves the sides of a pair as they are
SidesOfTypedUntouched(t) == t

\* the sides of a pair whose types have been settled
SidesOfTyped(t) == PairSides(t[1], t[2])

\* second pass on the two documents of one page
FixPair(d1, d2) == SidesOfTyped(PairTypes(d1, d2))

\* second pass: the documents are grouped by page, groups of two are fixed
SecondPass(first) ==
    [i \in DOMAIN first |->
        LET ds == { j \in DOMAIN first : PageKey(first[j]) = PageKey(first[i]) }
        IN  IF Cardinality(ds) # 2 THEN first[i]
            ELSE LET i1 == CHOOSE j \in ds : \A k \in ds : j <= k
                     i2 == CHOOSE j \in ds : \A k \in ds : j >= k
                 IN  FixPair(first[i1], first[i2])[IF i = i1 THEN 1 ELSE 2]]

\* _apply_classification_heuristics: both passes over the whole list
ApplyClassificationHeuristics(classifications) == SecondPass(FirstPass(classifications))

(***************************************************************************)
(* Inputs of the classification pipeline                                   *)
(***************************************************************************)
MaxSegs  == 2
MaxCount == 3

Txt(lines, lt, pad) == [lines |-> lines, lt |-> lt, pad |-> pad]

\* OCR texts of segments, after clean_text
TextSamples ==
    { Txt({}, 0, 0),
      Txt({<<"IDENTITY", "CARD">>, <<"name">>}, 0, 60),
      Txt({<<"FIRMA">>}, 0, 0),
      Txt({}, 5, 30),
      Txt({<<"passport">>}, 4, 250),
      Txt({<<"uidai">>}, 0, 0),
      Txt({<<"cognome">>, <<"luogo", "di", "nascita">>}, 6, 0),
      Txt({<<"carta", "di", "identita">>, <<"signature">>}, 0, 250),
      Txt({<<"place", "of", "birth">>}, 0, 0) }

\* measured <<ink_ratio (thousandths), ocr_confidence (points)>> of a segment
QualitySamples == { <<300, 100>>, <<0, 0>>, <<950, 40>> }

(***************************************************************************)
(* detect_identity_documents from the classification of the segments on:   *)
(* one classification per segment, then the adjuster, then the corrector   *)
(***************************************************************************)
IdIdle  == cls = <<>> /\ stage = "idle"
AdjIdle == adjIn = "none" /\ adjKf = "none" /\ adjCfg = "none" /\ adjOut = "none"
           /\ adjPc = "idle"
NoProfile == [kind |-> "none", start |-> 0, size |-> 0]
NoImage == [contours |-> <<>>, rows |-> NoProfile, cols |-> NoProfile, edges |-> <<>>]
SegIdle == /\ segImg = NoImage /\ segPadPct = 0 /\ segPc = "idle" /\ segCand = <<>>
           /\ segKept = <<>> /\ segPadded = <<>> /\ segOut = <<>> /\ segExc = "none"
NoEngine == [present |-> FALSE, langs |-> {}]
NoResult == [exc |-> "none", results |-> <<>>]
BatIdle == /\ batEngine = NoEngine /\ batFiles = <<>> /\ batMode = "none" /\ batLang = "none"
           /\ batIdx = 0 /\ batResults = <<>> /\ batOut = NoResult /\ batPc = "idle"
IdleExceptId  == AdjIdle /\ SegIdle /\ BatIdle
IdleExceptAdj == IdIdle /\ SegIdle /\ BatIdle
IdleExceptSeg == IdIdle /\ AdjIdle /\ BatIdle
IdleExceptBat == IdIdle /\ AdjIdle /\ SegIdle

\* process_page_with_multiple_documents: classify the next segment, which is
\* the next one of the current page or the first one of the next page
ClassifySegment ==
    /\ stage = "collect"
    /\ Len(cls) < MaxSegs
    /\ \E text \in TextSamples, q \in QualitySamples, samePage \in BOOLEAN :
         LET last == IF cls = <<>> THEN <<0, 0>> ELSE cls[Len(cls)].page_number
             pn   == IF samePage /\ cls # <<>> THEN <<last[1], last[2] + 1>>
                     ELSE <<last[1] + 1, 1>>
         IN  cls' = Append(cls, ClassifyIdentityDocument(text, q[1], q[2], pn))
    /\ stage' = "collect"
    /\ UNCHANGED exceptId

\* the frequency analysis and the adjustment of every classification
AdjustAll ==
    /\ stage = "collect"
    /\ cls # <<>>
    /\ LET kf == AnalyzeKeywordFrequency(cls)
       IN  cls' = [i \in DOMAIN cls |-> ApplyFrequencyBasedAdjustment(cls[i], kf, DefaultBoost)]
    /\ stage' = "adjusted"
    /\ UNCHANGED exceptId

\* the heuristic corrector, after which the list is returned
CorrectAll ==
    /\ stage = "adjusted"
    /\ cls' = ApplyClassificationHeuristics(cls)
    /\ stage' = "done"
    /\ UNCHANGED exceptId

\* texts for the side rule: any choice of lines holding the side keywords
\* and the strong phrases
SideTexts ==
    { Txt(ls, 0, 0) : ls \in SUBSET { <<"name">>, <<"photo">>, <<"gender">>, <<"nome">>,
                                       <<"signature">>, <<"expiry">>, <<"barcode">>,
                                       <<"FIRMA">>, <<"sesso">> } }

\* texts for the type rule: any choice of lines holding the type keywords
TypeTexts ==
    { Txt(ls, 0, 0) : ls \in SUBSET { <<"IDENTITY", "CARD">>, <<"carta", "di", "identita">>,
                                       <<"Aadhaar">>, <<"uidai">>, <<"passport">> } }

\* classify_identity_document on one segment, nothing after it
ClassifyOne ==
    /\ stage = "classify"
    /\ \E text \in SideTexts \cup TypeTexts, q \in QualitySamples :
          cls' = << ClassifyIdentityDocument(text, q[1], q[2], <<1, 1>>) >>
    /\ stage' = "classified"
    /\ UNCHANGED exceptId

InitClassify == cls = <<>> /\ stage = "classify" /\ IdleExceptId
NextClassify == ClassifyOne
SpecClassify == InitClassify /\ [][NextClassify]_vars

MaxFileSegs == 3

\* texts for the frequency analysis: no type, one type, two types
FreqTexts ==
    { Txt({}, 0, 0), Txt({<<"IDENTITY", "CARD">>}, 0, 0), Txt({<<"uidai">>}, 0, 0),
      Txt({<<"carta", "di", "identita">>, <<"Aadhaar">>}, 0, 0),
      Txt({<<"carta", "di", "identita">>}, 0, 0) }

\* the classifications of the segments of one file, one segment a page
FileClassifications ==
    UNION { { [i \in 1..n |-> ClassifyIdentityDocument(ts[i], 300, 100, <<i, 1>>)] :
                ts \in [1..n -> FreqTexts] } : n \in 1..MaxFileSegs }

\* the frequency analysis of detect_identity_documents and its adjustment loop
AdjustFile ==
    /\ stage = "frequency"
    /\ LET kf == AnalyzeKeywordFrequency(cls)
       IN  cls' = [i \in DOMAIN cls |-> ApplyFrequencyBasedAdjustment(cls[i], kf, DefaultBoost)]
    /\ stage' = "frequency-adjusted"
    /\ UNCHANGED exceptId

InitFrequency == cls \in FileClassifications /\ stage = "frequency" /\ IdleExceptId
NextFrequency == AdjustFile
SpecFrequency == InitFrequency /\ [][NextFrequency]_vars

InitPipeline == cls = <<>> /\ stage = "collect" /\ IdleExceptId
NextPipeline == ClassifySegment \/ AdjustAll \/ CorrectAll
SpecPipeline == InitPipeline /\ [][NextPipeline]_vars

(***************************************************************************)
(* _apply_frequency_based_adjustment on one classification, any frequency  *)
(* table and any boost settings                                            *)
(***************************************************************************)
BoostSamples ==
    { DefaultBoost,
      [single_match_boost |-> 0, double_match_boost |-> 0, triple_plus_match_boost |-> 0,
       single_word |-> 0, two_words |-> 0, three_plus_words |-> 0,
       max_specificity_bonus |-> 0, two_matches |-> 0, three_plus_matches |-> 0],
      [single_match_boost |-> 40, double_match_boost |-> 60, triple_plus_match_boost |-> 90,
       single_word |-> 10, two_words |-> 20, three_plus_words |-> 30,
       max_specificity_bonus |-> 50, two_matches |-> 20, three_plus_matches |-> 30],
      [single_match_boost |-> -5, double_match_boost |-> -10, triple_plus_match_boost |-> -15,
       single_word |-> 1, two_words |-> 2, three_plus_words |-> 3,
       max_specificity_bonus |-> 10, two_matches |-> 3, three_plus_matches |-> 5] }

BonusesNonNegative(bs) ==
    /\ bs.single_match_boost >= 0 /\ bs.double_match_boost >= 0
    /\ bs.triple_plus_match_boost >= 0
    /\ bs.single_word >= 0 /\ bs.two_words >= 0 /\ bs.three_plus_words >= 0
    /\ bs.max_specificity_bonus >= 0
    /\ bs.two_matches >= 0 /\ bs.three_plus_matches >= 0

\* every table over the configured types: a type is absent or has a count and
\* some of its own keywords
TypeTables ==
    UNION { [D -> [count : 1..MaxCount,
                   specific_keywords : UNION { SUBSET AllKeywords(document_type_keywords[t]) :
                                               t \in DocTypes }]] :
            D \in SUBSET {"residential_id", "aadhaar"} }

FrequencyTables ==
    { [document_types |-> tt, document_sides |-> <<>>, total_documents |-> MaxCount] :
        tt \in { u \in TypeTables :
                   \A t \in DOMAIN u :
                      u[t].specific_keywords \subseteq AllKeywords(document_type_keywords[t]) } }

InitAdjust ==
    /\ IdleExceptAdj
    /\ adjPc = "in"
    /\ adjOut = "none"
    /\ \E text \in TextSamples, q \in QualitySamples :
          adjIn = ClassifyIdentityDocument(text, q[1], q[2], <<1, 1>>)
    /\ adjKf \in FrequencyTables
    /\ adjCfg \in BoostSamples

ApplyAdjustment ==
    /\ adjPc = "in"
    /\ adjOut' = ApplyFrequencyBasedAdjustment(adjIn, adjKf, adjCfg)
    /\ adjPc' = "out"
    /\ UNCHANGED <<adjIn, adjKf, adjCfg, exceptAdj>>

NextAdjust == ApplyAdjustment
SpecAdjust == InitAdjust /\ [][NextAdjust]_vars

(***************************************************************************)
(* document_segmentation.py.  A page is what OpenCV reports of it: the     *)
(* external contours of the binarised page (bounding box and contour       *)
(* area), the largest run of near-empty rows and columns of the projection *)
(* profiles, and the contours of the edge map.  Boxes are <<x, y, w, h>>.  *)
(***************************************************************************)
PageW == 1000
PageH == 400
MaxBoxes == 3

MinAreaPercent == 5
MaxAreaPercent == 80
MinAspectPct   == 140
MaxAspectPct   == 200
IouThresholdPct == 30
MinSegmentDim  == 20

\* the key of s[i] is k[i]; elements with equal keys keep their order
StableSort(s, k) ==
    [p \in DOMAIN s |->
        s[CHOOSE i \in DOMAIN s :
            Cardinality({ j \in DOMAIN s : k[j] < k[i] \/ (k[j] = k[i] /\ j < i) }) = p - 1]]

BoxArea(c) == c[3] * c[4]

\* calculate_iou(c1, c2) > threshold, the threshold in percent
IouAbove(c1, c2, thrPct) ==
    LET xi1 == Max2(c1[1], c2[1])
        yi1 == Max2(c1[2], c2[2])
        xi2 == Min2(c1[1] + c1[3], c2[1] + c2[3])
        yi2 == Min2(c1[2] + c1[4], c2[2] + c2[4])
        inter == Max2(0, xi2 - xi1) * Max2(0, yi2 - yi1)
        union == BoxArea(c1) + BoxArea(c2) - inter
    IN  union > 0 /\ inter * 100 > thrPct * union

\* get_separation(c1, c2) = <<h_sep, v_sep>>
GetSeparation(c1, c2) ==
    LET r1 == c1[1] + c1[3]
        b1 == c1[2] + c1[4]
        r2 == c2[1] + c2[3]
        b2 == c2[2] + c2[4]
    IN  << IF r1 < c2[1] THEN c2[1] - r1 ELSE IF r2 < c1[1] THEN c1[1] - r2 ELSE 0,
           IF b1 < c2[2] THEN c2[2] - b1 ELSE IF b2 < c1[2] THEN c1[2] - b2 ELSE 0 >>

\* a test that looks at the IoU only
ConflictsIouOnly(c, selected, thrPct) == IouAbove(c, selected, thrPct)

\* the test that marks a contour as overlapping an already selected one
Conflicts(c, selected, thrPct) ==
    \/ IouAbove(c, selected, thrPct)
    \/ GetSeparation(c, selected) = <<0, 0>>

RECURSIVE Greedy(_, _, _, _)
\* the selection loop over the area-sorted contours from index i on
Greedy(sorted, i, result, thrPct) ==
    IF i > Len(sorted) THEN result
    ELSE IF \E j \in DOMAIN result : Conflicts(sorted[i], result[j], thrPct)
         THEN Greedy(sorted, i + 1, result, thrPct)
         ELSE Greedy(sorted, i + 1, Append(result, sorted[i]), thrPct)

\* sorted(contours, key=area, reverse=True): largest first, ties in input order
SortByAreaDesc(contours) ==
    StableSort(contours, [i \in DOMAIN contours |-> 0 - BoxArea(contours[i])])

RemoveOverlappingContours(contours, thrPct) ==
    IF Len(contours) <= 1 THEN contours
    ELSE Greedy(SortByAreaDesc(contours), 1, <<>>, thrPct)

\* the size test of segment_documents_on_page on one contour
IsDocumentSized(c) ==
    LET total == PageW * PageH
    IN  /\ total * MinAreaPercent < c.area * 100
        /\ c.area * 100 < total * MaxAreaPercent
        /\ c.box[4] > 0
        /\ MinAspectPct * c.box[4] < c.box[3] * 100
        /\ c.box[3] * 100 < MaxAspectPct * c.box[4]

\* document_contours: the boxes passing the size test, sorted by x
DocumentContours(contours) ==
    LET keep == SelectSeq(contours, IsDocumentSized)
        b    == [i \in DOMAIN keep |-> keep[i].box]
    IN  StableSort(b, [i \in DOMAIN b |-> b[i][1]])

\* the padded, clamped box of one contour
PadBox(c, padPct) ==
    LET padX == (c[3] * padPct) \div 100
        padY == (c[4] * padPct) \div 100
        x0 == Max2(0, c[1] - padX)
        y0 == Max2(0, c[2] - padY)
        x1 == Min2(PageW, c[1] + c[3] + padX)
        y1 == Min2(PageH, c[2] + c[4] + padY)
    IN  [bbox |-> <<x0, y0, x1 - x0, y1 - y0>>, confidence |-> 100]

RECURSIVE AdjustBoxes(_, _)
\* the loop of _fix_overlapping_bboxes over the pairs (i, i+1) of the y-sorted
\* boxes, each step reading the boxes as the previous steps left them
AdjustBoxes(b, i) ==
    IF i >= Len(b) THEN b
    ELSE LET cur == b[i]
             nxt == b[i + 1]
             curBottom == cur[2] + cur[4]
         IN  IF curBottom > nxt[2]
             THEN LET overlap == curBottom - nxt[2]
                      split   == cur[2] + (cur[4] - (overlap \div 2))
                  IN  AdjustBoxes([b EXCEPT ![i] = <<cur[1], cur[2], cur[3], split - cur[2]>>,
                                            ![i + 1] = <<nxt[1], split, nxt[3],
                                                         nxt[2] + nxt[4] - split>>], i + 1)
             ELSE AdjustBoxes(b, i + 1)

\* the re-extraction of one adjusted box, clamped to the page
Reextract(bbox, conf) ==
    LET x  == Max2(0, Min2(bbox[1], PageW - 1))
        y  == Max2(0, Min2(bbox[2], PageH - 1))
        x1 == Min2(x + bbox[3], PageW)
        y1 == Min2(y + bbox[4], PageH)
    IN  [bbox |-> <<x, y, x1 - x, y1 - y>>, confidence |-> conf]

FixOverlappingBboxes(segments) ==
    IF Len(segments) <= 1 THEN segments
    ELSE LET sorted == StableSort(segments, [i \in DOMAIN segments |-> segments[i].bbox[2]])
             adj    == AdjustBoxes([i \in DOMAIN sorted |-> sorted[i].bbox], 1)
             idx    == SelectSeq([i \in DOMAIN sorted |-> i],
                                 LAMBDA i : adj[i][3] > MinSegmentDim /\ adj[i][4] > MinSegmentDim)
         IN  [n \in DOMAIN idx |-> Reextract(adj[idx[n]], sorted[idx[n]].confidence)]

\* a < t * m and a > t * m for t > 0, without forming the product
LessThanProduct(a, t, m)    == a \div t < m
GreaterThanProduct(a, t, m) == a \div t > m \/ (a \div t = m /\ a % t > 0)

ProjectionConfidence == 60
EdgeConfidence       == 90
MinGapPct            == 3
MinGapAbs            == 3
SplitPadPct          == 1
MinSplitSize         == 10
MinVertices          == 4

\* the two intervals a projection profile splits the dimension dim into; the
\* profile is "blank" (no foreground), "nolow" (no row under the threshold)
\* or the largest run of low rows, from start, of the given size
ProjectionSplit(profile, dim) ==
    IF profile.kind # "gap" THEN <<>>
    ELSE IF profile.size < Max2(MinGapAbs, (MinGapPct * dim) \div 100) THEN <<>>
    ELSE LET split == profile.start + ((profile.size - 1) \div 2)
             pad   == (SplitPadPct * dim) \div 100
             parts == << <<0, Max2(0, split - pad)>>, <<Min2(dim, split + pad), dim>> >>
         IN  SelectSeq(parts, LAMBDA iv : iv[2] - iv[1] > MinSplitSize)

SegmentByHorizontalProjection(img) ==
    LET parts == ProjectionSplit(img.rows, PageH)
    IN  [i \in DOMAIN parts |->
            [bbox |-> <<0, parts[i][1], PageW, parts[i][2] - parts[i][1]>>,
             confidence |-> ProjectionConfidence]]

SegmentByVerticalProjection(img) ==
    LET parts == ProjectionSplit(img.cols, PageW)
    IN  [i \in DOMAIN parts |->
            [bbox |-> <<parts[i][1], 0, parts[i][2] - parts[i][1], PageH>>,
             confidence |-> ProjectionConfidence]]

\* the test of _segment_with_edge_detection on one contour of the edge map;
\* min_area and max_area are the values the caller passes
EdgeContourKept(c, min_area100, max_area100) ==
    LET total == PageW * PageH
    IN  /\ ~ LessThanProduct(c.area * 100, total, min_area100)
        /\ ~ GreaterThanProduct(c.area * 100, total, max_area100)
        /\ c.vertices >= MinVertices
        /\ c.box[4] > 0
        /\ MinAspectPct * c.box[4] < c.box[3] * 100
        /\ c.box[3] * 100 < MaxAspectPct * c.box[4]

SegmentWithEdgeDetection(img, min_area100, max_area100, padPct) ==
    LET keep == SelectSeq(img.edges, LAMBDA c : EdgeContourKept(c, min_area100, max_area100))
        segs == [i \in DOMAIN keep |->
                    [bbox |-> PadBox(keep[i].box, padPct).bbox, confidence |-> EdgeConfidence]]
    IN  StableSort(segs, [i \in DOMAIN segs |-> segs[i].bbox[1]])

WholePage == << [bbox |-> <<0, 0, PageW, PageH>>, confidence |-> 100] >>

\* what the fallback branch of segment_documents_on_page returns or raises;
\* min_area and max_area are bound only by an iteration of the contour loop
FallbackSegments(img, padPct) ==
    LET horiz == SegmentByHorizontalProjection(img)
        vert  == SegmentByVerticalProjection(img)
        total == PageW * PageH
        edge  == SegmentWithEdgeDetection(img, total * MinAreaPercent,
                                          total * MaxAreaPercent, padPct)
    IN  IF horiz # <<>> THEN [out |-> horiz, exc |-> "none"]
        ELSE IF vert # <<>> THEN [out |-> vert, exc |-> "none"]
        ELSE IF Len(img.contours) = 0 THEN [out |-> <<>>, exc |-> "UnboundLocalError"]
        ELSE IF edge # <<>> THEN [out |-> edge, exc |-> "none"]
        ELSE [out |-> WholePage, exc |-> "none"]

\* segment_documents_on_page, with the values it computes on the way
SegmentDocumentsOnPage(img, padPct) ==
    LET cand   == DocumentContours(img.contours)
        kept   == RemoveOverlappingContours(cand, IouThresholdPct)
        padded == [i \in DOMAIN kept |-> PadBox(kept[i], padPct)]
        fixed  == IF Len(padded) > 1 THEN FixOverlappingBboxes(padded) ELSE padded
        fb     == FallbackSegments(img, padPct)
    IN  [cand |-> cand, kept |-> kept, padded |-> padded,
         out |-> IF fixed # <<>> THEN fixed ELSE fb.out,
         exc |-> IF fixed # <<>> THEN "none" ELSE fb.exc]

(***************************************************************************)
(* Pages and box lists the segmentation is run on                          *)
(***************************************************************************)
\* a rectangular contour with bounding box <<x, y, w, h>> encloses (w-1)*(h-1)
Rect(x, y, w, h) == [box |-> <<x, y, w, h>>, area |-> (w - 1) * (h - 1)]

CandidateContours ==
    { Rect(0, 0, 320, 200),     Rect(330, 50, 320, 200),  Rect(700, 10, 210, 120),
      Rect(100, 60, 320, 200),  Rect(320, 200, 320, 200), Rect(0, 210, 320, 180),
      Rect(700, 250, 200, 100), Rect(600, 200, 150, 100) }

\* the contours no document-size test lets through
RejectedContours == { Rect(700, 250, 200, 100), Rect(600, 200, 150, 100) }

DistinctSeqs(S, n) ==
    { q \in [1..n -> S] : \A i, j \in 1..n : i # j => q[i] # q[j] }

ContourLists == UNION { DistinctSeqs(CandidateContours, n) : n \in 0..MaxBoxes }

Gap(start, size) == [kind |-> "gap", start |-> start, size |-> size]
Blank == [kind |-> "blank", start |-> 0, size |-> 0]
NoLow == [kind |-> "nolow", start |-> 0, size |-> 0]
RowProfiles == { NoLow, Gap(180, 40), Gap(100, 8), Gap(0, 14) }
ColProfiles == { NoLow, Gap(480, 40), Gap(300, 20) }
EdgeLists ==
    { <<>>, << [box |-> <<330, 50, 320, 200>>, area |-> 63481, vertices |-> 4] >> }
PadSamples == {0, 5, 10}

\* pages with contours, pages on which only the fallbacks can find something,
\* and the blank page: no contour, no foreground row or column, no edge
PageSamples ==
    { [contours |-> c, rows |-> NoLow, cols |-> NoLow, edges |-> <<>>] : c \in ContourLists }
    \cup { [contours |-> c, rows |-> r, cols |-> k, edges |-> e] :
             c \in UNION { DistinctSeqs(RejectedContours, n) : n \in 1..2 },
             r \in RowProfiles, k \in ColProfiles, e \in EdgeLists }
    \cup { [contours |-> <<>>, rows |-> Blank, cols |-> Blank, edges |-> <<>>] }

BoxLists == { [i \in DOMAIN c |-> c[i].box] : c \in ContourLists }

InitSeg ==
    /\ IdleExceptSeg
    /\ segKept = <<>> /\ segPadded = <<>> /\ segOut = <<>> /\ segExc = "none"
    /\ \/ /\ segPc = "page"
          /\ segImg \in PageSamples
          /\ segPadPct \in PadSamples
          /\ segCand = <<>>
       \/ /\ segPc = "boxes"
          /\ segImg = NoImage
          /\ segPadPct = 0
          /\ segCand \in BoxLists

\* segment_documents_on_page(image, config)
SegmentPage ==
    /\ segPc = "page"
    /\ LET r == SegmentDocumentsOnPage(segImg, segPadPct)
       IN  /\ segCand' = r.cand
           /\ segKept' = r.kept
           /\ segPadded' = r.padded
           /\ segOut' = r.out
           /\ segExc' = r.exc
           /\ segPc' = IF r.exc = "none" THEN "returned" ELSE "raised"
    /\ UNCHANGED <<segImg, segPadPct, exceptSeg>>

\* remove_overlapping_contours(contours) with the default threshold
FilterBoxes ==
    /\ segPc = "boxes"
    /\ segKept' = RemoveOverlappingContours(segCand, IouThresholdPct)
    /\ segPc' = "filtered"
    /\ UNCHANGED <<segImg, segPadPct, segCand, segPadded, segOut, segExc, exceptSeg>>

NextSeg == SegmentPage \/ FilterBoxes
SpecSeg == InitSeg /\ [][NextSeg]_vars

(***************************************************************************)
(* Quality metrics: clarity_check.py, confidence_check.py,                 *)
(* content_extraction.py.  What a Python call hands back is kept with its  *)
(* shape, a bare float or a tuple, because the callers unpack it.  The OCR *)
(* engine is present or not and has the data of some languages; a call     *)
(* for a language raises when the engine or the language data is absent.   *)
(* OCR confidences are in hundredths of a point, ink in thousandths.       *)
(***************************************************************************)
PyFloat(v)     == [py |-> "float", items |-> <<v>>]
PyTuple(items) == [py |-> "tuple", items |-> items]

\* a, b = value
Unpack2(value) ==
    IF value.py = "tuple" /\ Len(value.items) = 2
    THEN [exc |-> "none", a |-> value.items[1], b |-> value.items[2]]
    ELSE [exc |-> "TypeError", a |-> 0, b |-> 0]

\* calculate_ink_ratio: return ink_ratio
CalculateInkRatio(image) == PyFloat(image.ink)

\* a pytesseract call for the language raises
OcrFails(engine, lang) == ~ engine.present \/ lang \notin engine.langs

OcrError(engine) == IF engine.present THEN "TesseractError" ELSE "TesseractNotFoundError"

RECURSIVE SumSeq(_)
SumSeq(q) == IF q = <<>> THEN 0 ELSE q[1] + SumSeq(Tail(q))

\* sum(c) / len(c) if c else 0, of whole points, in hundredths
MeanOf(q) == IF q = <<>> THEN 0 ELSE (SumSeq(q) * 100) \div Len(q)

\* _extract_confidences_from_ocr_data: one value for every box
ExtractConfidencesFromOcrData(boxes) ==
    [i \in DOMAIN boxes |->
        IF boxes[i].conf < 0 THEN 0
        ELSE IF boxes[i].kind = "empty" THEN 0 ELSE boxes[i].conf]

\* _extract_confidences_filtered
ExtractConfidencesFiltered(boxes) ==
    LET val(b)   == IF b.conf < 0 THEN 0 ELSE b.conf
        withText == SelectSeq(boxes, LAMBDA b : b.kind # "empty")
        content  == SelectSeq(boxes, LAMBDA b : b.kind = "text")
        all      == [i \in DOMAIN withText |-> val(withText[i])]
        filtered == [i \in DOMAIN content |-> val(content[i])]
    IN  [filtered_conf |-> MeanOf(filtered), total_conf |-> MeanOf(all),
         text_conf |-> MeanOf(filtered), filtered_boxes |-> Len(filtered),
         total_boxes |-> Len(boxes), has_artifacts |-> Len(withText) > Len(content)]

SparseTextPct == 50
TextWeightPct == 70
FilteredWeightPct == 30
EarlyReturnConf == 1500
SecondPassConf == 1000

\* the confidence the fast tier computes from one successful OCR call, in
\* hundredths; FastBlendFloat below is the float itself
FastBlend(boxes) ==
    LET r == ExtractConfidencesFiltered(boxes)
    IN  IF r.filtered_boxes > 0 /\ r.filtered_boxes * 100 < r.total_boxes * SparseTextPct
        THEN (TextWeightPct * r.text_conf + FilteredWeightPct * r.filtered_conf) \div 100
        ELSE r.filtered_conf

(***************************************************************************)
(* Python floats: IEEE-754 binary64, every operation rounded to nearest,   *)
(* ties to even.  A non-negative float is [bits, exp]: bits holds the bits *)
(* of an integer m, least significant first, and the value is m * 2^exp.   *)
(* The canonical form has no zero bit at either end, so that two floats    *)
(* are the same number exactly when their canonical forms are equal.       *)
(***************************************************************************)
MantissaBits == 53
FloatZero == [bits |-> <<>>, exp |-> 0]

HighOne(b) ==
    CHOOSE k \in 0..Len(b) : (k = 0 \/ b[k] = 1) /\ \A i \in (k + 1)..Len(b) : b[i] = 0
LowZeros(b) ==
    CHOOSE k \in 0..Len(b) : (\A i \in 1..k : b[i] = 0) /\ (k = Len(b) \/ b[k + 1] = 1)

Canonical(x) ==
    IF HighOne(x.bits) = 0 THEN FloatZero
    ELSE [bits |-> SubSeq(x.bits, LowZeros(x.bits) + 1, HighOne(x.bits)),
          exp |-> x.exp + LowZeros(x.bits)]

\* Carries are propagated LimbWidth bits at a time.
LimbWidth == 12
Pow2 == <<1, 2, 4, 8, 16, 32, 64, 128, 256, 512, 1024, 2048, 4096>>

\* the bits of the number whose limbs are l, least significant first
LimbsToBits(l) ==
    [p \in 1..(LimbWidth * Len(l)) |->
        (l[((p - 1) \div LimbWidth) + 1] \div Pow2[((p - 1) % LimbWidth) + 1]) % 2]

\* the sum of d[i] * 2^(i-1) over the positions i of limb j, from the i-th on
RECURSIVE LimbDigits(_, _, _)
LimbDigits(d, j, i) ==
    IF i > LimbWidth THEN 0
    ELSE (IF LimbWidth * (j - 1) + i \in 1..Len(d)
          THEN Pow2[i] * d[LimbWidth * (j - 1) + i] ELSE 0) + LimbDigits(d, j, i + 1)

RECURSIVE CarryLimbs(_, _, _, _)
CarryLimbs(d, j, c, n) ==
    IF j > n THEN <<>>
    ELSE << (LimbDigits(d, j, 1) + c) % Pow2[LimbWidth + 1] >>
         \o CarryLimbs(d, j + 1, (LimbDigits(d, j, 1) + c) \div Pow2[LimbWidth + 1], n)

\* the bits of the number whose digit of weight 2^(i-1) is d[i], plus c
CarryBits(d, c) == LimbsToBits(CarryLimbs(d, 1, c, (Len(d) \div LimbWidth) + 2))

\* the bit of weight 2^p of x
BitAt(x, p) == IF p - x.exp + 1 \in 1..Len(x.bits) THEN x.bits[p - x.exp + 1] ELSE 0

\* x + y and x * y as real numbers, before rounding
FloatExactSum(x, y) ==
    LET e   == Min2(x.exp, y.exp)
        top == Max2(x.exp + Len(x.bits), y.exp + Len(y.bits))
    IN  [bits |-> CarryBits([k \in 1..(top - e) |-> BitAt(x, e + k - 1) + BitAt(y, e + k - 1)],
                            0),
         exp |-> e]
FloatExactProduct(x, y) ==
    [bits |-> CarryBits([k \in 1..(Len(x.bits) + Len(y.bits) - 1) |->
                            Cardinality({i \in 1..Len(x.bits) :
                                            /\ k + 1 - i \in 1..Len(y.bits)
                                            /\ x.bits[i] = 1
                                            /\ y.bits[k + 1 - i] = 1})],
                        0),
     exp |-> x.exp + y.exp]

\* c, canonical and wider than a mantissa, loses its d low bits: up when the
\* lost part is above one half, or is one half and the kept part is odd
RoundDrop(c, d) ==
    Canonical([bits |-> IF c.bits[d] = 1 /\ ((\E i \in 1..(d - 1) : c.bits[i] = 1) \/ c.bits[d + 1] = 1)
                        THEN CarryBits(SubSeq(c.bits, d + 1, Len(c.bits)), 1)
                        ELSE SubSeq(c.bits, d + 1, Len(c.bits)),
               exp |-> c.exp + d])
RoundCanonical(c) ==
    IF Len(c.bits) <= MantissaBits THEN c ELSE RoundDrop(c, Len(c.bits) - MantissaBits)
RoundNearestEven(x) == RoundCanonical(Canonical(x))

RECURSIVE IntBits(_)
IntBits(n) == IF n = 0 THEN <<>> ELSE <<n % 2>> \o IntBits(n \div 2)

\* k limbs of r / n (r < n) below the point, and what is left of r after them
RECURSIVE QuotientLimbs(_, _, _)
QuotientLimbs(r, n, k) ==
    IF k = 0 THEN <<>>
    ELSE QuotientLimbs((r * Pow2[LimbWidth + 1]) % n, n, k - 1)
         \o << (r * Pow2[LimbWidth + 1]) \div n >>
RECURSIVE QuotientRest(_, _, _)
QuotientRest(r, n, k) ==
    IF k = 0 THEN r ELSE QuotientRest((r * Pow2[LimbWidth + 1]) % n, n, k - 1)

\* the float s / n of two small integers: the quotient to 6 limbs below the
\* point, under them one bit that says whether anything is left, rounded; a
\* decimal literal such as 0.7 is the float 7 / 10
FloatDiv(s, n) ==
    RoundNearestEven([bits |-> << IF QuotientRest(s % n, n, 6) = 0 THEN 0 ELSE 1 >>
                               \o LimbsToBits(QuotientLimbs(s % n, n, 6))
                               \o IntBits(s \div n),
                      exp |-> 0 - (6 * LimbWidth + 1)])
FloatSum(x, y) == RoundNearestEven(FloatExactSum(x, y))
FloatProduct(x, y) == RoundNearestEven(FloatExactProduct(x, y))

\* sum(c) / len(c) if c else 0.0, as the float it is
FloatMean(q) == IF q = <<>> THEN FloatZero ELSE FloatDiv(SumSeq(q), Len(q))

\* filtered_confidences and text_confidences of _extract_confidences_filtered
FilteredConfidences(boxes) ==
    [i \in DOMAIN SelectSeq(boxes, LAMBDA b : b.kind = "text") |->
        Max2(0, SelectSeq(boxes, LAMBDA b : b.kind = "text")[i].conf)]
TextConfidences(boxes) ==
    [i \in DOMAIN SelectSeq(boxes, LAMBDA b : b.kind = "text") |->
        Max2(0, SelectSeq(boxes, LAMBDA b : b.kind = "text")[i].conf)]

\* avg_conf of calculate_ocr_confidence_fast after one successful OCR call,
\* as the float it is
FastBlendFloat(boxes) ==
    IF /\ Len(FilteredConfidences(boxes)) > 0
       /\ Len(FilteredConfidences(boxes)) * 100 < Len(boxes) * SparseTextPct
    THEN FloatSum(FloatProduct(FloatDiv(TextWeightPct, 100), FloatMean(TextConfidences(boxes))),
                  FloatProduct(FloatDiv(FilteredWeightPct, 100), FloatMean(FilteredConfidences(boxes))))
    ELSE FloatMean(FilteredConfidences(boxes))

CalculateOcrConfidenceFast(engine, image, lang) ==
    IF ~ OcrFails(engine, lang) THEN FastBlend(image.boxes)
    ELSE IF lang # "eng" /\ ~ OcrFails(engine, "eng") THEN FastBlend(image.boxes)
    ELSE 0

CalculateOcrConfidenceSuperfast(engine, image, lang) ==
    IF ~ OcrFails(engine, lang) THEN MeanOf(ExtractConfidencesFromOcrData(image.boxes))
    ELSE IF lang # "eng" /\ ~ OcrFails(engine, "eng")
         THEN MeanOf(ExtractConfidencesFromOcrData(image.boxes))
    ELSE 0

\* the second call, on the enhanced image, names no language: the engine's
\* default "eng" is used
CalculateOcrConfidenceBalanced(engine, image, lang) ==
    LET first == IF OcrFails(engine, lang) THEN 0
                 ELSE MeanOf(ExtractConfidencesFromOcrData(image.boxes))
        enh   == MeanOf(ExtractConfidencesFromOcrData(image.enhanced))
    IN  IF ~ OcrFails(engine, lang) /\ first >= EarlyReturnConf THEN first
        ELSE IF first < SecondPassConf /\ ~ OcrFails(engine, "eng") /\ enh > first THEN enh
        ELSE first

\* one pytesseract.image_to_data call: the language asked for, the image
\* handed over, and whether the call returned
OcrCall(engine, lang, image) == [lang |-> lang, image |-> image, ok |-> ~ OcrFails(engine, lang)]

\* the OCR calls of the fast and of the superfast tier, in order
OcrCallsWithFallback(engine, lang) ==
    IF ~ OcrFails(engine, lang) \/ lang = "eng" THEN << OcrCall(engine, lang, "page") >>
    ELSE << OcrCall(engine, lang, "page"), OcrCall(engine, "eng", "page") >>

\* the OCR calls of the balanced tier, in order
OcrCallsBalanced(engine, image, lang) ==
    LET first == IF OcrFails(engine, lang) THEN 0
                 ELSE MeanOf(ExtractConfidencesFromOcrData(image.boxes))
    IN  IF ~ OcrFails(engine, lang) /\ first >= EarlyReturnConf
        THEN << OcrCall(engine, lang, "page") >>
        ELSE IF first < SecondPassConf
        THEN << OcrCall(engine, lang, "page"), OcrCall(engine, "eng", "enhanced") >>
        ELSE << OcrCall(engine, lang, "page") >>

\* the OCR calls one calculate_ocr_confidence makes
OcrCalls(engine, image, mode, lang) ==
    IF mode \in {"superfast", "fast"} THEN OcrCallsWithFallback(engine, lang)
    ELSE OcrCallsBalanced(engine, image, lang)

\* calculate_ocr_confidence: the tiers catch what the OCR calls raise, so the
\* handler around them has nothing to catch
CalculateOcrConfidence(engine, image, mode, lang) ==
    PyTuple(<< IF mode = "superfast" THEN CalculateOcrConfidenceSuperfast(engine, image, lang)
               ELSE IF mode = "fast" THEN CalculateOcrConfidenceFast(engine, image, lang)
               ELSE CalculateOcrConfidenceBalanced(engine, image, lang), 0 >>)

Raw(txt, junk) == [txt |-> txt, junk |-> junk, url |-> 0, tail |-> <<>>]
EmptyRaw == Raw(Txt({}, 0, 0), 0)

\* a raw OCR text that goes on, after txt, with a URL of url characters (none
\* of them a backslash or a letter s) and then with the words of tail
RawWithUrl(txt, url, tail) == [txt |-> txt, junk |-> 0, url |-> url, tail |-> tail]

\* all the words of a raw OCR text, the URL counted as filler
FullText(raw) ==
    Txt(raw.txt.lines \cup (IF raw.tail = <<>> THEN {} ELSE {raw.tail}),
        raw.txt.lt, raw.txt.pad + raw.url)

\* len(text) of a raw OCR text
RawLen(raw) == TextLen(FullText(raw)) + raw.junk

\* clean_text: the removable characters go, the words and lines stay
CleanText(raw) == FullText(raw)

\* what is left of a word from its first letter s on ("" when it has none)
FromS(w) ==
    CASE w = "nascita"   -> "scita"
      [] w \in {"surname", "signature", "sesso", "scadenza"} -> w
      [] OTHER           -> ""

RECURSIVE EatToS(_)
\* the class [^\\s] of the URL pattern leaves out the backslash and the letter
\* s only: a match runs over blanks and line ends up to the next letter s
EatToS(tail) ==
    IF tail = <<>> THEN <<>>
    ELSE IF FromS(Lower(tail[1])) # "" THEN << FromS(Lower(tail[1])) >> \o Tail(tail)
    ELSE EatToS(Tail(tail))

\* pattern.sub('', filtered_text) for the patterns of ARTIFACT_PATTERNS, then
\* strip(); the texts hold no other artifact than a URL
FilterArtifacts(raw) ==
    IF raw.url = 0 THEN raw.txt
    ELSE Txt(raw.txt.lines \cup (IF EatToS(raw.tail) = <<>> THEN {} ELSE {EatToS(raw.tail)}),
             raw.txt.lt, raw.txt.pad)

\* extract_text_content: image_to_string without a language, outside any try
ExtractTextContent(engine, image, mode) ==
    IF OcrFails(engine, "eng") THEN [exc |-> OcrError(engine), text |-> EmptyRaw]
    ELSE [exc |-> "none", text |-> IF mode = "fast" THEN image.text ELSE image.text_full]

(***************************************************************************)
(* document_processor.py, api.py.py and the drivers of the identity        *)
(* detection.  A raw OCR text is a text plus a number of characters that   *)
(* clean_text removes.  A file has a kind, may be undecodable, and has     *)
(* pages; a page image has its OCR texts and boxes, its ink ratio, and the *)
(* segments the segmentation finds on it (none at all on a blank page).    *)
(* A call that can raise gives [exc, ...], exc = "none" for a return.      *)
(***************************************************************************)
NoneImage == [kind |-> "None"]

LangOrder == <<"ita", "eng">>
\* ocr_settings.language_detection_keywords of config.json
language_detection_keywords ==
    [l \in Range(LangOrder) |->
        IF l = "ita" THEN {<<"cognome">>, <<"nascita">>} ELSE {<<"name">>, <<"identity">>}]

\* sum(1 for keyword in keywords if keyword in text_lower)
LangScore(l, text) ==
    Cardinality({ kw \in language_detection_keywords[l] : InLower(kw, text) })

\* the languages kept in lang_scores, in the order of the configuration
ScoredLanguages(text) == SelectSeq(LangOrder, LAMBDA l : LangScore(l, text) > 0)

\* max(lang_scores, key=lang_scores.get): the first of the highest
BestLanguage(text, scored) ==
    scored[CHOOSE i \in DOMAIN scored :
              /\ \A j \in DOMAIN scored : LangScore(scored[j], text) <= LangScore(scored[i], text)
              /\ \A j \in 1..(i - 1) : LangScore(scored[j], text) < LangScore(scored[i], text)]

\* the rest of detect_document_language, on the filtered text
DetectInFiltered(text, primary) ==
    IF TextLen(text) = 0 THEN primary
    ELSE IF ScoredLanguages(text) = <<>> THEN primary
    ELSE BestLanguage(text, ScoredLanguages(text))

\* detect_document_language
DetectDocumentLanguage(raw, primary) ==
    IF RawLen(raw) = 0 THEN primary
    ELSE DetectInFiltered(FilterArtifacts(raw), primary)

\* the body of the page loop of extract_page_data, for page number n
ExtractOnePage(engine, image, n, primary, auto) ==
    LET t    == ExtractTextContent(engine, image, "fast")
        lang == IF auto THEN DetectDocumentLanguage(t.text, primary) ELSE primary
        ink  == Unpack2(CalculateInkRatio(image))
        conf == Unpack2(CalculateOcrConfidence(engine, image, "fast", lang))
    IN  IF t.exc # "none" THEN [exc |-> t.exc, rec |-> <<>>]
        ELSE IF ink.exc # "none" THEN [exc |-> ink.exc, rec |-> <<>>]
        ELSE IF conf.exc # "none" THEN [exc |-> conf.exc, rec |-> <<>>]
        ELSE [exc |-> "none",
              rec |-> << [page |-> n, ink_ratio |-> ink.a, ocr_conf |-> conf.a,
                          image |-> image, text_content |-> t.text,
                          detected_language |-> lang] >>]

RECURSIVE ExtractPages(_, _, _, _, _, _)
\* for page_num in range(len(doc)), from page i on; the first exception ends it
ExtractPages(engine, pages, i, acc, primary, auto) ==
    IF i > Len(pages) THEN [exc |-> "none", results |-> acc]
    ELSE LET r == ExtractOnePage(engine, pages[i], i, primary, auto)
         IN  IF r.exc # "none" THEN [exc |-> r.exc, results |-> <<>>]
             ELSE ExtractPages(engine, pages, i + 1, acc \o r.rec, primary, auto)

\* the record of a PDF without pages; it has no detected_language key
EmptyPdfRecord ==
    [page |-> 1, ink_ratio |-> 0, ocr_conf |-> 0, image |-> NoneImage,
     text_content |-> EmptyRaw]

ExtractPageData(engine, file, primary, auto) ==
    IF file.kind = "pdf"
    THEN IF ~ file.decodable THEN [exc |-> "FileDataError", results |-> <<>>]
         ELSE IF Len(file.pages) = 0 THEN [exc |-> "none", results |-> <<EmptyPdfRecord>>]
         ELSE ExtractPages(engine, file.pages, 1, <<>>, primary, auto)
    ELSE IF ~ file.decodable THEN [exc |-> "UnidentifiedImageError", results |-> <<>>]
         ELSE ExtractPages(engine, file.pages, 1, <<>>, primary, auto)

ReadabilityThreshold == 1500
EmptinessThreshold   == 5

\* the result row process_file makes of one page record
PageRow(file, rec) ==
    [file |-> file.name, page |-> rec.page, confidence |-> rec.ocr_conf,
     readable |-> rec.ocr_conf >= ReadabilityThreshold,
     empty |-> rec.ink_ratio < EmptinessThreshold,
     ink_ratio |-> rec.ink_ratio,
     language |-> IF "detected_language" \in DOMAIN rec THEN rec.detected_language ELSE "eng",
     text_content |-> rec.text_content]

\* the row of the except branch of process_file
ErrorRow(file, exc) ==
    [file |-> file.name, page |-> "N/A", confidence |-> 0, readable |-> FALSE,
     empty |-> FALSE, ink_ratio |-> 0, error |-> exc]

\* process_file: one try around the extraction and the loop over the pages
ProcessFile(engine, file, primary, auto) ==
    LET e == ExtractPageData(engine, file, primary, auto)
    IN  IF e.exc # "none" THEN << ErrorRow(file, e.exc) >>
        ELSE [i \in DOMAIN e.results |-> PageRow(file, e.results[i])]

ShortTextLen   == 30
BetterTextPct  == 150

\* the body of the segment loop of process_page_with_multiple_documents and
\* classify_identity_document with _extract_features, for segment number idx
ClassifyOneSegment(engine, segment, page_number, idx) ==
    LET fast == ExtractTextContent(engine, segment, "fast")
        full == ExtractTextContent(engine, segment, "full")
        text == IF RawLen(fast.text) < ShortTextLen
                   /\ RawLen(full.text) * 100 > RawLen(fast.text) * BetterTextPct
                THEN full.text ELSE fast.text
        ink  == Unpack2(CalculateInkRatio(segment))
        ocr  == Unpack2(CalculateOcrConfidence(engine, segment, "fast", "eng"))
    IN  IF fast.exc # "none" THEN [exc |-> fast.exc, rec |-> <<>>]
        ELSE IF ink.exc # "none" THEN [exc |-> ink.exc, rec |-> <<>>]
        ELSE IF ocr.exc # "none" THEN [exc |-> ocr.exc, rec |-> <<>>]
        ELSE [exc |-> "none",
              rec |-> << ClassifyIdentityDocument(CleanText(text), ink.a, ocr.a \div 100,
                                                  <<page_number, idx>>) >>]

RECURSIVE ClassifySegments(_, _, _, _, _)
ClassifySegments(engine, segments, page_number, idx, acc) ==
    IF idx > Len(segments) THEN [exc |-> "none", results |-> acc]
    ELSE LET r == ClassifyOneSegment(engine, segments[idx], page_number, idx)
         IN  IF r.exc # "none" THEN [exc |-> r.exc, results |-> <<>>]
             ELSE ClassifySegments(engine, segments, page_number, idx + 1, acc \o r.rec)

\* process_page_with_multiple_documents: nothing it calls is inside a try
ProcessPageWithMultipleDocuments(engine, image, page_number) ==
    IF image.kind = "None" THEN [exc |-> "cv2.error", results |-> <<>>]
    ELSE IF image.blank THEN [exc |-> "UnboundLocalError", results |-> <<>>]
    ELSE ClassifySegments(engine, image.segs, page_number, 1, <<>>)

RECURSIVE CollectPages(_, _, _, _)
\* the single pass of detect_identity_documents over the page records
CollectPages(engine, recs, i, acc) ==
    IF i > Len(recs) THEN [exc |-> "none", results |-> acc]
    ELSE LET r == ProcessPageWithMultipleDocuments(engine, recs[i].image, recs[i].page)
         IN  IF r.exc # "none" THEN [exc |-> r.exc, results |-> <<>>]
             ELSE CollectPages(engine, recs, i + 1, acc \o r.results)

DefaultPrimaryLanguage == "ita"

\* the adjustment loop of detect_identity_documents
AdjustEach(classifications, kf) ==
    [i \in DOMAIN classifications |->
        ApplyFrequencyBasedAdjustment(classifications[i], kf, DefaultBoost)]

\* detect_identity_documents after the single pass, whose outcome is c
FinishDetection(c) ==
    IF c.exc # "none" THEN [exc |-> c.exc, results |-> <<>>]
    ELSE [exc |-> "none",
          results |-> ApplyClassificationHeuristics(
                          AdjustEach(c.results, AnalyzeKeywordFrequency(c.results)))]

\* detect_identity_documents after extract_page_data, whose outcome is e
DetectFromPages(engine, e) ==
    IF e.exc # "none" THEN [exc |-> e.exc, results |-> <<>>]
    ELSE FinishDetection(CollectPages(engine, e.results, 1, <<>>))

\* detect_identity_documents: no try anywhere on the way
DetectIdentityDocuments(engine, file) ==
    DetectFromPages(engine, ExtractPageData(engine, file, DefaultPrimaryLanguage, TRUE))

(***************************************************************************)
(* Files, pages and engines the extraction and the batch run work on       *)
(***************************************************************************)
MaxPages == 2
MaxFiles == 2

Engines ==
    { [present |-> FALSE, langs |-> {}],
      [present |-> TRUE,  langs |-> {}],
      [present |-> TRUE,  langs |-> {"eng"}],
      [present |-> TRUE,  langs |-> {"eng", "ita"}] }

Box(kind, conf) == [kind |-> kind, conf |-> conf]

\* one card cut out of a page
SegmentSample ==
    [kind |-> "image", blank |-> FALSE, segs |-> <<>>, ink |-> 300,
     text      |-> Raw(Txt({<<"cognome">>}, 0, 0), 2),
     text_full |-> Raw(Txt({<<"cognome">>, <<"carta", "di", "identita">>}, 0, 20), 0),
     boxes     |-> << Box("text", 80), Box("empty", 0 - 1) >>,
     enhanced  |-> << Box("text", 60) >>]

\* a page with a card on it, and a blank page
ImageSamples ==
    { [kind |-> "image", blank |-> FALSE, segs |-> <<SegmentSample>>, ink |-> 120,
       text      |-> Raw(Txt({<<"cognome">>, <<"name">>}, 0, 40), 3),
       text_full |-> Raw(Txt({<<"cognome">>, <<"name">>}, 0, 40), 3),
       boxes     |-> << Box("text", 90), Box("empty", 0 - 1), Box("artifact", 40) >>,
       enhanced  |-> << Box("text", 70) >>],
      [kind |-> "image", blank |-> TRUE, segs |-> <<>>, ink |-> 0,
       text |-> EmptyRaw, text_full |-> EmptyRaw, boxes |-> <<>>, enhanced |-> <<>>] }

PageLists == UNION { [1..n -> ImageSamples] : n \in 0..MaxPages }

\* what a file holds: a PDF of any number of pages, an image, or bytes that
\* do not decode
FileBodies ==
    { [kind |-> "pdf", decodable |-> TRUE, pages |-> ps] : ps \in PageLists }
    \cup { [kind |-> "image", decodable |-> TRUE, pages |-> <<i>>] : i \in ImageSamples }
    \cup { [kind |-> k, decodable |-> FALSE, pages |-> <<>>] : k \in {"pdf", "image"} }

\* the i-th file of the sorted listing; its name is its place in the listing
Named(body, i) ==
    [name |-> i, kind |-> body.kind, decodable |-> body.decodable, pages |-> body.pages]

Batches ==
    UNION { { [i \in 1..n |-> Named(b[i], i)] : b \in [1..n -> FileBodies] } : n \in 1..MaxFiles }

\* first-pass OCR texts: keyword lines, alone or followed by a URL and by
\* the words that come after it
LangTexts ==
    LET bases == { Txt(ls, 0, 0) : ls \in SUBSET {<<"cognome">>, <<"nascita">>, <<"name">>, <<"identity">>} }
    IN  { Raw(b, 0) : b \in bases }
        \cup { RawWithUrl(b, 14, t) : b \in bases,
                 t \in { <<>>, <<"name", "identity">>, <<"name", "nascita", "identity">> } }

\* a page whose first-pass OCR text is raw
PageWithText(raw) ==
    [kind |-> "image", blank |-> FALSE, segs |-> <<>>, ink |-> 120,
     text |-> raw, text_full |-> raw, boxes |-> << Box("text", 90) >>, enhanced |-> <<>>]

MaxTokens == 2

\* what image_to_data reports for a page: word tokens, a token read with no
\* confidence, structural boxes (no text, confidence -1) and a URL
TokenLists ==
    UNION { [1..n -> { Box("text", 90), Box("text", 20), Box("text", 0 - 1),
                       Box("empty", 0 - 1), Box("artifact", 40) }] : n \in 0..MaxTokens }

\* sparse pages: the tokens with text are fewer than half of the boxes
SparseTokenLists ==
    { << Box("text", c), Box("empty", 0 - 1), Box("empty", 0 - 1) >> : c \in {90, 46, 20} }
    \cup { << Box("text", 90), Box("empty", 0 - 1), Box("text", 20), Box("empty", 0 - 1),
              Box("empty", 0 - 1) >>,
           << Box("text", 46), Box("artifact", 40), Box("empty", 0 - 1), Box("empty", 0 - 1) >> }

\* a page that OCR reads as the tokens boxes, and as one token once enhanced
PageWithTokens(boxes) ==
    [kind |-> "image", blank |-> FALSE, segs |-> <<>>, ink |-> 120,
     text |-> EmptyRaw, text_full |-> EmptyRaw, boxes |-> boxes,
     enhanced |-> << Box("text", 60) >>]

OcrModes == {"superfast", "fast", "balanced", "accurate"}
OcrLangs == {"eng", "ita"}

InitBatch ==
    /\ IdleExceptBat
    /\ batEngine \in Engines
    /\ batIdx = 1 /\ batResults = <<>> /\ batOut = NoResult
    /\ \/ /\ batPc = "batch"
          /\ batFiles \in Batches
          /\ batMode = "auto" /\ batLang = DefaultPrimaryLanguage
       \/ /\ batPc = "extract"
          /\ batFiles \in { <<Named(b, 1)>> : b \in FileBodies }
          /\ batMode \in {"auto", "primary"} /\ batLang \in OcrLangs
       \/ /\ batPc = "measure"
          /\ batFiles \in { <<Named(b, 1)>> : b \in { c \in FileBodies : c.kind = "image" /\ c.decodable } }
                         \cup { << Named([kind |-> "image", decodable |-> TRUE,
                                          pages |-> << PageWithTokens(b) >>], 1) >> :
                                b \in TokenLists \cup SparseTokenLists }
          /\ batMode \in OcrModes /\ batLang \in OcrLangs
       \/ /\ batPc = "detect"
          /\ batFiles \in { <<Named(b, 1)>> : b \in FileBodies }
          /\ batMode = "auto" /\ batLang = DefaultPrimaryLanguage
       \/ /\ batPc = "language"
          /\ batFiles \in { << Named([kind |-> "image", decodable |-> TRUE,
                                      pages |-> << PageWithText(t) >>], 1) >> : t \in LangTexts }
          /\ batMode = "auto" /\ batLang \in OcrLangs

\* one turn of the loop of run_readability_check: process_file on the next file
ProcessNextFile ==
    /\ batPc = "batch"
    /\ batIdx <= Len(batFiles)
    /\ batResults' = batResults \o ProcessFile(batEngine, batFiles[batIdx], batLang, batMode = "auto")
    /\ batIdx' = batIdx + 1
    /\ batPc' = IF batIdx = Len(batFiles) THEN "reported" ELSE "batch"
    /\ UNCHANGED <<batEngine, batFiles, batMode, batLang, batOut, exceptBat>>

\* extract_page_data(file_bytes, file_name, primary_language, auto_detect)
CallExtractPageData ==
    /\ batPc = "extract"
    /\ batOut' = ExtractPageData(batEngine, batFiles[1], batLang, batMode = "auto")
    /\ batPc' = "extracted"
    /\ UNCHANGED <<batEngine, batFiles, batMode, batLang, batIdx, batResults, exceptBat>>

\* calculate_ocr_confidence(image, mode, lang)
CallCalculateOcrConfidence ==
    /\ batPc = "measure"
    /\ batOut' = [exc |-> "none",
                  results |-> CalculateOcrConfidence(batEngine, batFiles[1].pages[1],
                                                     batMode, batLang).items,
                  calls |-> OcrCalls(batEngine, batFiles[1].pages[1], batMode, batLang)]
    /\ batPc' = "measured"
    /\ UNCHANGED <<batEngine, batFiles, batMode, batLang, batIdx, batResults, exceptBat>>

\* detect_identity_documents(file_bytes, file_name)
CallDetectIdentityDocuments ==
    /\ batPc = "detect"
    /\ batOut' = DetectIdentityDocuments(batEngine, batFiles[1])
    /\ batPc' = "detected"
    /\ UNCHANGED <<batEngine, batFiles, batMode, batLang, batIdx, batResults, exceptBat>>

\* detect_document_language(text_content, primary_language) on the text of a page
CallDetectDocumentLanguage ==
    /\ batPc = "language"
    /\ batOut' = [exc |-> "none",
                  results |-> << DetectDocumentLanguage(batFiles[1].pages[1].text, batLang) >>]
    /\ batPc' = "language-detected"
    /\ UNCHANGED <<batEngine, batFiles, batMode, batLang, batIdx, batResults, exceptBat>>

NextBatch ==
    \/ CallDetectDocumentLanguage
    \/ ProcessNextFile
    \/ CallExtractPageData
    \/ CallCalculateOcrConfidence
    \/ CallDetectIdentityDocuments
SpecBatch == InitBatch /\ [][NextBatch]_vars

OnlyTypeOf(text) ==
    { X \in DocTypes :
        /\ \E kw \in AllKeywords(document_type_keywords[X]) : ContainsKw(kw, text)
        /\ \A Y \in DocTypes \ {X} :
              \A kw \in AllKeywords(document_type_keywords[Y]) : ~ContainsKw(kw, text) }

\* C4: a text with a keyword of the configured type X and of no other type
\* is classified as type X (with a score above 0).
C4_SoleTypeWins ==
    stage = "collect" =>
        \A i \in DOMAIN cls : \A X \in OnlyTypeOf(cls[i].text_content) :
            /\ cls[i].document_type = X
            /\ TypeScore(X, cls[i].text_content, cls[i].features) > 0

\* C5: after the corrector every classification whose text has at least five
\* '<' characters has side BACK.
C5_MrzIsBack ==
    stage = "done" =>
        \A i \in DOMAIN cls :
            CountLt(cls[i].text_content) >= 5 => cls[i].document_side = "back"

\* C5 witness: the classifier had said FRONT for a text with an MRZ, and the
\* other segment of the same page is a BACK as well
C5_Witness ==
    /\ stage = "done"
    /\ \E i, j \in DOMAIN cls :
          /\ i # j
          /\ PageKey(cls[i]) = PageKey(cls[j])
          /\ CountLt(cls[i].text_content) >= 5
          /\ ClassifyDocumentSide(cls[i].text_content, cls[i].features) = "front"
          /\ cls[i].document_side = "back"
          /\ CountLt(cls[j].text_content) >= 5

SharePixel(a, b) ==
    /\ a[1] < b[1] + b[3] /\ b[1] < a[1] + a[3]
    /\ a[2] < b[2] + b[4] /\ b[2] < a[2] + a[4]

\* C2: whenever segment_documents_on_page returns two or more contour-based
\* segments, no two of the returned boxes share a pixel, whether or not they
\* are consecutive in the top-to-bottom order.
C2_ReturnedBoxesDisjoint ==
    (segPc = "returned" /\ Len(segPadded) > 1 /\ Len(segOut) >= 2
       /\ segOut = FixOverlappingBboxes(segPadded))
    => \A i, j \in DOMAIN segOut : i # j => ~ SharePixel(segOut[i].bbox, segOut[j].bbox)

NoConflict(a, b) ==
    /\ ~ IouAbove(a, b, IouThresholdPct)
    /\ GetSeparation(a, b) # <<0, 0>>

SubSeqAt(q, K) ==
    LET idx == SelectSeq([i \in DOMAIN q |-> i], LAMBDA i : i \in K)
    IN  [n \in DOMAIN idx |-> q[idx[n]]]

\* C3: remove_overlapping_contours returns a sub-list of the input taken
\* greedily in descending area order (a box is kept exactly when it neither
\* has IoU above 0.3 with nor touches a box kept before it), so no two kept
\* boxes conflict, and two equal-area boxes with IoU > 0.3 reduce to the
\* first of them.
C3_GreedySubList ==
    segPc \in {"filtered", "returned", "raised"} =>
        LET S == SortByAreaDesc(segCand)
        IN  /\ Len(segCand) <= 1 => segKept = segCand
            /\ Len(segCand) > 1 =>
                 \E K \in SUBSET DOMAIN S :
                    /\ \A i \in DOMAIN S :
                          i \in K <=> \A j \in K : j < i => NoConflict(S[i], S[j])
                    /\ segKept = SubSeqAt(S, K)
            /\ \A i, j \in DOMAIN segKept :
                  i < j => /\ NoConflict(segKept[i], segKept[j])
                           /\ BoxArea(segKept[i]) >= BoxArea(segKept[j])
            /\ (/\ Len(segCand) = 2
                /\ BoxArea(segCand[1]) = BoxArea(segCand[2])
                /\ IouAbove(segCand[1], segCand[2], IouThresholdPct))
               => segKept = <<segCand[1]>>

C3_Witness ==
    /\ segPc = "filtered"
    /\ Len(segCand) = 3 /\ Len(segKept) = 2
    /\ BoxArea(segCand[1]) = BoxArea(segCand[2])
    /\ IouAbove(segCand[1], segCand[2], IouThresholdPct)
    /\ segKept[1] = segCand[1]

\* C6: on every page, the blank page included, when the contours, the two
\* projection splits and the edge detection give no segment the call returns
\* the whole page as its one segment with confidence 1.0; the call never
\* raises and never returns an empty list.
C6_WholePageFallback ==
    segPc \in {"returned", "raised"} =>
        /\ segExc = "none"
        /\ segOut # <<>>
        /\ (/\ (Len(segPadded) = 0 \/ FixOverlappingBboxes(segPadded) = <<>>)
            /\ SegmentByHorizontalProjection(segImg) = <<>>
            /\ SegmentByVerticalProjection(segImg) = <<>>
            /\ SegmentWithEdgeDetection(segImg, PageW * PageH * MinAreaPercent,
                                        PageW * PageH * MaxAreaPercent, segPadPct) = <<>>)
           => segOut = WholePage

(***************************************************************************)
(* Properties of the extraction and of the batch run                       *)
(***************************************************************************)
EveryOcrCallRaises(engine) == \A l \in OcrLangs : OcrFails(engine, l)

\* the pages extract_page_data is to report for a decodable file
PagesOf(file) == 1..Len(file.pages)

\* C8: for a decodable PDF of n >= 1 pages, and for a decodable image,
\* extract_page_data returns the records of pages 1..n in order, each with
\* ink_ratio >= 0 and ocr_conf >= 0.  Stated for a working OCR engine.
C8_OneRecordPerPage ==
    (/\ batPc = "extracted"
     /\ batFiles[1].decodable /\ Len(batFiles[1].pages) >= 1
     /\ ~ OcrFails(batEngine, "eng"))
    => /\ batOut.exc = "none"
       /\ DOMAIN batOut.results = PagesOf(batFiles[1])
       /\ \A i \in DOMAIN batOut.results :
             /\ batOut.results[i].page = i
             /\ batOut.results[i].ink_ratio >= 0
             /\ batOut.results[i].ocr_conf >= 0

\* C9: when every OCR call raises, extract_page_data on a decodable file and
\* calculate_ocr_confidence in every mode return, with OCR confidence 0 for
\* every page.
C9_OcrMissingNotFatal ==
    EveryOcrCallRaises(batEngine) =>
        /\ (batPc = "extracted" /\ batFiles[1].decodable)
           => /\ batOut.exc = "none"
              /\ \A i \in DOMAIN batOut.results : batOut.results[i].ocr_conf = 0
        /\ batPc = "measured" => batOut.exc = "none" /\ batOut.results[1] = 0

RowsOf(file) == { r \in DOMAIN batResults : batResults[r].file = file.name }

\* C10: a page or segment that raises does not end the run nor cost the other
\* units their rows: after the batch every file has been worked on, every
\* decodable file has at least one row per page, a row that carries an error
\* has confidence 0, and detect_identity_documents returns.
C10_FailureIsPerUnit ==
    /\ batPc = "reported" =>
          /\ batIdx = Len(batFiles) + 1
          /\ \A f \in DOMAIN batFiles :
                /\ \A r \in RowsOf(batFiles[f]) :
                      "error" \in DOMAIN batResults[r] => batResults[r].confidence = 0
                /\ batFiles[f].decodable
                      => Cardinality(RowsOf(batFiles[f])) >= Len(batFiles[f].pages)
    /\ (batPc = "detected" /\ batFiles[1].decodable) => batOut.exc = "none"

\* C11: in every tier, when the call with the requested language fails and
\* that language is not "eng", the call on the page is repeated exactly once
\* with "eng" and 0 comes back when that fails too; when the requested
\* language is "eng" a failure gives 0 with no further call; a call that
\* succeeded is never repeated on the page.
C11_OneRetryWithDefault ==
    batPc = "measured" =>
        LET calls == batOut.calls
        IN  /\ calls[1] = OcrCall(batEngine, batLang, "page")
            /\ (~ calls[1].ok /\ batLang # "eng")
                  => /\ calls = << calls[1], OcrCall(batEngine, "eng", "page") >>
                     /\ ~ calls[2].ok => batOut.results[1] = 0
            /\ (~ calls[1].ok /\ batLang = "eng")
                  => calls = << calls[1] >> /\ batOut.results[1] = 0
            /\ calls[1].ok => \A i \in 2..Len(calls) : calls[i].image # "page"

\* the number of keywords of language l in the text without its URL
CountWithoutArtifact(l, raw) == LangScore(l, FullText(raw))

\* C12: detect_document_language returns the language whose keyword count in
\* the text without its artifacts is non-zero and above that of every other
\* language, and the primary language when there is no such language (a tie
\* for the highest count, no match, an empty or an all-artifact text).
C12_HighestCountOrPrimary ==
    batPc = "language-detected" =>
        LET raw  == batFiles[1].pages[1].text
            tops == { l \in Range(LangOrder) :
                        /\ CountWithoutArtifact(l, raw) > 0
                        /\ \A m \in Range(LangOrder) \ {l} :
                              CountWithoutArtifact(m, raw) < CountWithoutArtifact(l, raw) }
        IN  IF tops # {} THEN batOut.results[1] \in tops ELSE batOut.results[1] = batLang

\* the tokens with non-empty trimmed text and a non-negative confidence
ValidTokens(boxes) == SelectSeq(boxes, LAMBDA b : b.kind # "empty" /\ b.conf >= 0)

\* the mean of the confidences of the valid tokens, 0 when there is none
ValidMean(boxes) ==
    MeanOf([i \in DOMAIN ValidTokens(boxes) |-> ValidTokens(boxes)[i].conf])

\* C13: when the OCR call succeeds, the superfast tier returns the mean of the
\* confidences of the tokens with text and a non-negative confidence (0 when
\* there is none), so does the fast tier when no token is an artifact, and
\* the balanced tier returns that mean of one of its two passes.
C13_MeanOverValidTokens ==
    (batPc = "measured" /\ batOut.calls[1].ok) =>
        LET image == batFiles[1].pages[1]
        IN  /\ batMode = "superfast" => batOut.results[1] = ValidMean(image.boxes)
            /\ (batMode = "fast" /\ \A i \in DOMAIN image.boxes : image.boxes[i].kind # "artifact")
                  => batOut.results[1] = ValidMean(image.boxes)
            /\ batMode \notin {"superfast", "fast"}
                  => batOut.results[1] \in {ValidMean(image.boxes), ValidMean(image.enhanced)}

\* the classification is the only one of its page: the pair rules leave it alone
AloneOnPage(i) == \A j \in DOMAIN cls : j # i => PageKey(cls[j]) # PageKey(cls[i])

\* C14: in the per-segment pass of the corrector, a text without MRZ gets the
\* side whose hand-curated keyword list scores higher, and on equal non-zero
\* scores a text shorter than 200 characters is FRONT.
C14_HigherListWins ==
    stage = "done" =>
        \A i \in DOMAIN cls :
            (AloneOnPage(i) /\ ~ cls[i].content_analysis.has_mrz) =>
                LET a == cls[i].content_analysis
                IN  /\ a.back_score > a.front_score => cls[i].document_side = "back"
                    /\ a.front_score > a.back_score => cls[i].document_side = "front"
                    /\ (/\ a.front_score = a.back_score /\ a.front_score > 0
                        /\ TextLen(cls[i].text_content) < ShortTextLimit)
                       => cls[i].document_side = "front"

\* the segments the contour stage of the page in hand ends with
ContourSegments == IF Len(segPadded) > 1 THEN FixOverlappingBboxes(segPadded) ELSE segPadded

\* the boxes of q follow one another along coordinate k (1: x, 2: y)
OrderedAlong(q, k) == \A i, j \in DOMAIN q : i < j => q[i].bbox[k] <= q[j].bbox[k]

\* C15: contour-based segments are returned left to right (non-decreasing
\* bounding-box x) whatever their number; a horizontal projection split
\* returns top then bottom, a vertical one left then right.
C15_ReturnedLeftToRight ==
    (segPc = "returned" /\ segExc = "none") =>
        /\ ContourSegments # <<>> => segOut = ContourSegments /\ OrderedAlong(segOut, 1)
        /\ (ContourSegments = <<>> /\ SegmentByHorizontalProjection(segImg) # <<>>)
              => segOut = SegmentByHorizontalProjection(segImg) /\ OrderedAlong(segOut, 2)
        /\ (/\ ContourSegments = <<>> /\ SegmentByHorizontalProjection(segImg) = <<>>
            /\ SegmentByVerticalProjection(segImg) # <<>>)
              => segOut = SegmentByVerticalProjection(segImg) /\ OrderedAlong(segOut, 1)

\* the area of c is within [min_area_percent, max_area_percent] of the page
\* area and its aspect ratio within the bounds of the contour stage
WithinContourBounds(c) ==
    /\ c.area * 100 >= PageW * PageH * MinAreaPercent
    /\ c.area * 100 <= PageW * PageH * MaxAreaPercent
    /\ c.box[4] > 0
    /\ MinAspectPct * c.box[4] < c.box[3] * 100
    /\ c.box[3] * 100 < MaxAspectPct * c.box[4]

\* C16: when segment_documents_on_page reaches the edge-detection fallback,
\* a candidate of the edge map is returned as a segment exactly when its area
\* is within the area fractions and its aspect ratio within the bounds that
\* the contour stage uses.
C16_EdgeFallbackSameBounds ==
    (/\ segPc = "returned" /\ segExc = "none" /\ ContourSegments = <<>>
     /\ SegmentByHorizontalProjection(segImg) = <<>>
     /\ SegmentByVerticalProjection(segImg) = <<>>)
    => \A i \in DOMAIN segImg.edges :
          (WithinContourBounds(segImg.edges[i]) /\ segImg.edges[i].vertices >= MinVertices)
          <=> \E k \in DOMAIN segOut :
                 /\ segOut[k].confidence = EdgeConfidence
                 /\ segOut[k].bbox = PadBox(segImg.edges[i].box, segPadPct).bbox

\* the confidence the balanced tier computes from the tokens of one pass
PassConfidence(boxes) == MeanOf(ExtractConfidencesFromOcrData(boxes))

\* C17: in the balanced tier, a first pass below 15 is followed by a second
\* pass on the enhanced image and the larger of the two confidences is
\* returned; a first pass of 15 or more is returned with no second pass.
C17_SecondPassBelowThreshold ==
    (batPc = "measured" /\ batMode = "balanced" /\ batOut.calls[1].ok) =>
        LET image == batFiles[1].pages[1]
            first == PassConfidence(image.boxes)
        IN  /\ first < EarlyReturnConf
               => /\ Len(batOut.calls) = 2
                  /\ batOut.calls[2].image = "enhanced"
                  /\ batOut.results[1] =
                        IF batOut.calls[2].ok
                        THEN Max2(first, PassConfidence(image.enhanced)) ELSE first
            /\ first >= EarlyReturnConf
               => batOut.calls = << batOut.calls[1] >> /\ batOut.results[1] = first

\* the side-indicating flag of a phrase list: a phrase occurs in the text
HasPhrase(phrases, text) == \E w \in phrases : InLower(w, text)

\* C18: when both side scores are positive the higher side is returned if
\* |front - back| / max * 100 > 10, otherwise FRONT or BACK as only strong
\* front or only strong back phrases occur and FRONT when still tied; when
\* one score only is positive that side; when none UNKNOWN; never BOTH.
C18_SideRule ==
    stage = "classified" =>
        LET c     == cls[1]
            front == SideScore("front", c.text_content, c.features)
            back  == SideScore("back", c.text_content, c.features)
            diff  == IF front > back THEN front - back ELSE back - front
            sf    == HasPhrase(StrongFront, c.text_content)
            sb    == HasPhrase(StrongBack, c.text_content)
        IN  /\ c.document_side # "both"
            /\ (front > 0 /\ back > 0 /\ diff * 100 > 10 * Max2(front, back))
                  => c.document_side = IF front > back THEN "front" ELSE "back"
            /\ (front > 0 /\ back > 0 /\ diff * 100 <= 10 * Max2(front, back))
                  => c.document_side = IF sb /\ ~ sf THEN "back" ELSE "front"
            /\ (front > 0 /\ back = 0) => c.document_side = "front"
            /\ (front = 0 /\ back > 0) => c.document_side = "back"
            /\ (front = 0 /\ back = 0) => c.document_side = "unknown"

\* C18 witness: the back score is the higher one, by no more than a tenth,
\* strong phrases of both sides occur, and the side is FRONT
C18_Witness ==
    /\ stage = "classified"
    /\ SideScore("back", cls[1].text_content, cls[1].features)
         > SideScore("front", cls[1].text_content, cls[1].features)
    /\ SideScore("front", cls[1].text_content, cls[1].features) > 0
    /\ HasPhrase(StrongFront, cls[1].text_content)
    /\ HasPhrase(StrongBack, cls[1].text_content)
    /\ cls[1].document_side = "front"

\* the configured types whose score is the highest one
TopTypes(text, f) ==
    { t \in DocTypes : \A u \in DocTypes : TypeScore(u, text, f) <= TypeScore(t, text, f) }

\* C19: with the score 2 x matched primary-language keywords + 1 x matched
\* other-language keywords + 3 x type flag, the type returned is the first
\* in configuration order of those with the highest score when that score is
\* above 0, and UNKNOWN exactly when every type scores 0.
C19_HighestTypeScoreWins ==
    stage = "classified" =>
        LET c    == cls[1]
            tops == TopTypes(c.text_content, c.features)
            i    == CHOOSE k \in DOMAIN DocTypeOrder :
                       /\ DocTypeOrder[k] \in tops
                       /\ \A j \in 1..(k - 1) : DocTypeOrder[j] \notin tops
        IN  IF \A t \in DocTypes : TypeScore(t, c.text_content, c.features) = 0
            THEN c.document_type = "unknown"
            ELSE c.document_type = DocTypeOrder[i]

\* the number of segments of the file whose flag for type t is set
SegmentsWithType(t) == Cardinality({ j \in DOMAIN cls : cls[j].features.typeFlag[t] })

\* the highest such number over the types whose flag is set for segment i
CrossDocumentMatches(i) ==
    LET ns == { SegmentsWithType(t) : t \in { u \in DocTypes : cls[i].features.typeFlag[u] } }
    IN  IF ns = {} THEN 0 ELSE CHOOSE m \in ns : \A n \in ns : n <= m

\* C20: cross_document_matches of a segment is the highest, over the types
\* whose flag is set for it, of the number of segments of the file with that
\* flag set (0 when no flag is set); the frequency boost is the single,
\* double or triple-plus boost for 1, 2 or at least 3 matches and 0 for 0; a
\* segment with a type flag set gets at least the single boost.
C20_CrossDocumentBoost ==
    stage = "frequency-adjusted" =>
        \A i \in DOMAIN cls :
            LET d == cls[i].confidence_adjustment
                n == CrossDocumentMatches(i)
            IN  /\ d.cross_document_matches = n
                /\ d.frequency_boost =
                      IF n >= 3 THEN DefaultBoost.triple_plus_match_boost
                      ELSE IF n = 2 THEN DefaultBoost.double_match_boost
                      ELSE IF n = 1 THEN DefaultBoost.single_match_boost ELSE 0
                /\ (\E t \in DocTypes : cls[i].features.typeFlag[t])
                      => d.frequency_boost >= DefaultBoost.single_match_boost

\* C20 witness: a segment with two type flags, one shared with one other
\* segment and one its own, gets the double boost; another segment of the
\* file has no flag and no boost
C20_Witness ==
    /\ stage = "frequency-adjusted"
    /\ \E i, k \in DOMAIN cls :
          /\ cls[i].features.typeFlag["residential_id"]
          /\ cls[i].features.typeFlag["aadhaar"]
          /\ SegmentsWithType("residential_id") = 2
          /\ SegmentsWithType("aadhaar") = 1
          /\ cls[i].confidence_adjustment.cross_document_matches = 2
          /\ cls[i].confidence_adjustment.frequency_boost = DefaultBoost.double_match_boost
          /\ cls[k].confidence_adjustment.frequency_boost = 0

\* the configured type the scores elect: the first of the highest, "unknown"
\* when every type scores 0
WinningType(text, f) ==
    IF \A t \in DocTypes : TypeScore(t, text, f) = 0 THEN "unknown"
    ELSE DocTypeOrder[CHOOSE k \in DOMAIN DocTypeOrder :
                         /\ DocTypeOrder[k] \in TopTypes(text, f)
                         /\ \A j \in 1..(k - 1) : DocTypeOrder[j] \notin TopTypes(text, f)]

\* C21: the base confidence is the clamp to [0, 100] of 0.3 x OCR confidence,
\* + 30 when the winning type (any configured type) has its flag set, + 25
\* when the winning side has its flag set, + 15 for an ink ratio within
\* [0.05, 0.8], - 20 below 0.01, - 10 above 0.9, + 10 for a text length
\* within [50, 2000], - 30 for length 0.
C21_BaseConfidence ==
    stage = "classified" =>
        LET c == cls[1]
            f == c.features
            w == WinningType(c.text_content, f)
            raw == 30 * f.ocr_confidence
                   + (IF w # "unknown" /\ f.typeFlag[w] THEN 3000 ELSE 0)
                   + (IF c.document_side \in DocSides /\ f.sideFlag[c.document_side]
                      THEN 2500 ELSE 0)
                   + (IF 50 <= f.ink_ratio /\ f.ink_ratio <= 800 THEN 1500
                      ELSE IF f.ink_ratio < 10 THEN 0 - 2000
                      ELSE IF f.ink_ratio > 900 THEN 0 - 1000 ELSE 0)
                   + (IF 50 <= f.text_length /\ f.text_length <= 2000 THEN 1000
                      ELSE IF f.text_length = 0 THEN 0 - 3000 ELSE 0)
        IN  c.confidence = Max2(0, Min2(10000, raw))

\* i and j are the two segments of a page that holds exactly two
PairOnPage(i, j) ==
    /\ i # j
    /\ \A k \in DOMAIN cls : PageKey(cls[k]) = PageKey(cls[i]) <=> k \in {i, j}

\* C22: the corrector, on a page with exactly two segments of which exactly
\* one has type UNKNOWN, gives that segment the type of the other and a
\* confidence of at least 65 and not below its own; the other segment keeps
\* its type and its confidence.
C22_TypePropagatedToPair ==
    [][ (stage = "adjusted" /\ stage' = "done") =>
          \A i, j \in DOMAIN cls :
             (/\ PairOnPage(i, j)
              /\ cls[i].document_type = "unknown"
              /\ cls[j].document_type # "unknown")
             => /\ cls'[i].document_type = cls[j].document_type
                /\ cls'[j].document_type = cls[j].document_type
                /\ cls'[i].confidence >= PairMinConfidence
                /\ cls'[i].confidence >= cls[i].confidence
                /\ cls'[j].confidence = cls[j].confidence ]_vars

\* C22 witness: the second segment of a page took the type of the first and
\* its confidence went up to 65; the first is a typed segment
C22_Witness ==
    /\ stage = "done"
    /\ \E i, j \in DOMAIN cls :
          /\ PairOnPage(i, j) /\ i < j
          /\ ClassifyDocumentType(cls[j].text_content, cls[j].features) = "unknown"
          /\ ClassifyDocumentType(cls[i].text_content, cls[i].features) = "aadhaar"
          /\ cls[j].document_type = "aadhaar"
          /\ cls[j].heuristic_applied \in {"matched_with_pair", "paired_front_back", "paired_back_front"}
          /\ cls[j].confidence = PairMinConfidence

\* C23: after the corrector no page of exactly two segments has one side
\* FRONT or BACK and the other UNKNOWN: a side that the per-segment pass
\* leaves UNKNOWN becomes BACK next to a FRONT and FRONT next to a BACK,
\* whichever of the two segments comes first.
C23_UnknownSideCompleted ==
    [][ (stage = "adjusted" /\ stage' = "done") =>
          \A i, j \in DOMAIN cls :
             PairOnPage(i, j) =>
                /\ ~ (cls'[i].document_side \in {"front", "back"}
                      /\ cls'[j].document_side = "unknown")
                /\ (/\ AnalyzeOne(cls[i]).document_side = "unknown"
                    /\ AnalyzeOne(cls[j]).document_side = "front")
                   => cls'[i].document_side = "back" /\ cls'[j].document_side = "front"
                /\ (/\ AnalyzeOne(cls[i]).document_side = "unknown"
                    /\ AnalyzeOne(cls[j]).document_side = "back")
                   => cls'[i].document_side = "front" /\ cls'[j].document_side = "back" ]_vars

\* C23 witness: the first segment of a page had no side of its own and was
\* made the FRONT of the BACK that follows it
C23_Witness ==
    /\ stage = "done"
    /\ \E i, j \in DOMAIN cls :
          /\ PairOnPage(i, j) /\ i < j
          /\ ClassifyDocumentSide(cls[i].text_content, cls[i].features) = "unknown"
          /\ ~ cls[i].content_analysis.has_front_keywords
          /\ ~ cls[i].content_analysis.has_back_keywords
          /\ cls[i].heuristic_applied = "paired_back_front"
          /\ cls[i].document_side = "front"
          /\ cls[j].document_side = "back"

\* the file in hand with the text of segment j replaced by text
WithOtherText(j, text) ==
    [cls EXCEPT ![j] = ClassifyIdentityDocument(text, cls[j].features.ink_ratio,
                                                cls[j].features.ocr_confidence,
                                                cls[j].page_number)]

\* the specificity bonus segment i gets when the file is the list given
SpecificityBonusIn(i, classifications) ==
    AdjustmentDetails(cls[i], AnalyzeKeywordFrequency(classifications),
                      DefaultBoost).specificity_bonus

\* C24: the specificity bonus of a segment does not change when the text of
\* another segment of the file is replaced by a text that matches the same
\* set of types.
C24_SpecificityFromOwnText ==
    stage = "frequency-adjusted" =>
        \A i, j \in DOMAIN cls : \A text \in FreqTexts :
            (/\ i # j
             /\ WithOtherText(j, text)[j].features.typeFlag = cls[j].features.typeFlag)
            => SpecificityBonusIn(i, WithOtherText(j, text))
                 = cls[i].confidence_adjustment.specificity_bonus

\* the overlap-resolution pass has run on the padded segments of the page
FixPassRan == segPc = "returned" /\ Len(segPadded) > 1 /\ segOut = FixOverlappingBboxes(segPadded)

\* C25: _fix_overlapping_bboxes returns unchanged every box that shares no
\* pixel with any other box; two boxes side by side, sharing a y-range but
\* apart in x, keep their y and height.
C25_DisjointBoxesUntouched ==
    FixPassRan =>
        \A i \in DOMAIN segPadded :
            (\A j \in DOMAIN segPadded \ {i} : ~ SharePixel(segPadded[i].bbox, segPadded[j].bbox))
            => \E k \in DOMAIN segOut : segOut[k].bbox = segPadded[i].bbox

\* C26: when every box it receives is more than 20 pixels wide and high,
\* _fix_overlapping_bboxes returns as many segments as it received, each
\* inside the box it came from and with a positive height.
C26_NoSegmentDropped ==
    (FixPassRan /\ \A i \in DOMAIN segPadded :
                      /\ segPadded[i].bbox[3] > MinSegmentDim
                      /\ segPadded[i].bbox[4] > MinSegmentDim)
    => /\ Len(segOut) = Len(segPadded)
       /\ \A k \in DOMAIN segOut : segOut[k].bbox[4] > 0

\* OCR confidences below, on the edges of, inside and above the moderate band
OcrBandSamples == {0, ModerateMin - 1, ModerateMin, 50, ModerateMax, ModerateMax + 1, 100}

\* C27: for a fixed text and fixed feature flags, _classify_document_side returns
\* the same side whatever the OCR confidence is, inside or outside the moderate band.
C27_SideIndependentOfBand ==
    stage = "classified" =>
        \A q \in OcrBandSamples :
            ClassifyDocumentSide(cls[1].text_content,
                                 [cls[1].features EXCEPT !.ocr_confidence = q])
                = cls[1].document_side

C27_Witness ==
    /\ stage = "classified"
    /\ ModerateMin <= cls[1].features.ocr_confidence
    /\ cls[1].features.ocr_confidence <= ModerateMax
    /\ SideScore("front", cls[1].text_content, cls[1].features) > 0
    /\ SideScore("back", cls[1].text_content, cls[1].features)
           > SideScore("front", cls[1].text_content, cls[1].features)
    /\ cls[1].document_side = "back"
    /\ ClassifyDocumentSide(cls[1].text_content,
                            [cls[1].features EXCEPT !.ocr_confidence = 100]) = "back"

\* C28: in the fast tier text_conf and filtered_conf are averages over the same
\* tokens and are equal, and the confidence the tier computes is the filtered
\* average in both branches of the sparse-text test: the 70%/30% blend does not
\* change the score.
C28_BlendIsFilteredAverage ==
    (batPc = "measured" /\ batMode = "fast" /\ batOut.calls[1].ok) =>
        /\ TextConfidences(batFiles[1].pages[1].boxes)
              = FilteredConfidences(batFiles[1].pages[1].boxes)
        /\ batOut.results[1] = ExtractConfidencesFiltered(batFiles[1].pages[1].boxes).filtered_conf
        /\ FastBlendFloat(batFiles[1].pages[1].boxes)
              = FloatMean(FilteredConfidences(batFiles[1].pages[1].boxes))

\* C29: detect_identity_documents on a PDF without pages returns normally: the
\* one record extract_page_data makes for it (no image, empty text) goes through
\* segmentation and classification without an exception.
C29_EmptyPdfDetected ==
    (/\ batPc = "detected"
     /\ batFiles[1].kind = "pdf"
     /\ batFiles[1].decodable
     /\ Len(batFiles[1].pages) = 0)
        => /\ ExtractPageData(batEngine, batFiles[1], DefaultPrimaryLanguage, TRUE)
                = [exc |-> "none", results |-> <<EmptyPdfRecord>>]
           /\ batOut.exc = "none"

(***************************************************************************)
(* clean_text on the characters of a string.  A string is the sequence of  *)
(* its characters: a letter, a space, a tab, a newline, a carriage return, *)
(* a question mark (it stands for every character of the removed class:    *)
(* null byte, control characters, U+FFFD) and a bullet.                     *)
(***************************************************************************)
MaxChars == 4
Chars == {"a", "space", "tab", "newline", "return", "question", "bullet"}
CleanInputs == UNION { [1..n -> Chars] : n \in 0..MaxChars }

\* the length of the run of c that s starts with (s[1] = c)
RunLen(s, c) ==
    CHOOSE n \in 1..Len(s) : (\A i \in 1..n : s[i] = c) /\ (n = Len(s) \/ s[n + 1] # c)

\* re.sub of the pattern c{k,} by rep: every maximal run of at least k
\* characters c becomes rep
RECURSIVE ReSubRuns(_, _, _, _)
ReSubRuns(s, c, k, rep) ==
    IF s = <<>> THEN <<>>
    ELSE IF s[1] # c THEN << s[1] >> \o ReSubRuns(Tail(s), c, k, rep)
    ELSE (IF RunLen(s, c) >= k THEN rep ELSE SubSeq(s, 1, RunLen(s, c)))
         \o ReSubRuns(SubSeq(s, RunLen(s, c) + 1, Len(s)), c, k, rep)

\* str.strip(): the whitespace at both ends goes
WhiteSpace == {"space", "tab", "newline", "return"}
Strip(s) ==
    IF \A i \in DOMAIN s : s[i] \in WhiteSpace THEN <<>>
    ELSE SubSeq(s, CHOOSE i \in DOMAIN s : s[i] \notin WhiteSpace
                                          /\ \A j \in 1..(i - 1) : s[j] \in WhiteSpace,
                   CHOOSE i \in DOMAIN s : s[i] \notin WhiteSpace
                                          /\ \A j \in (i + 1)..Len(s) : s[j] \in WhiteSpace)

\* text.split('\n')
RECURSIVE SplitLines(_)
SplitLines(s) ==
    IF \A i \in DOMAIN s : s[i] # "newline" THEN << s >>
    ELSE << SubSeq(s, 1, (CHOOSE i \in DOMAIN s : s[i] = "newline"
                                      /\ \A j \in 1..(i - 1) : s[j] # "newline") - 1) >>
         \o SplitLines(SubSeq(s, (CHOOSE i \in DOMAIN s : s[i] = "newline"
                                      /\ \A j \in 1..(i - 1) : s[j] # "newline") + 1, Len(s)))

\* '\n'.join(lines)
RECURSIVE JoinLines(_)
JoinLines(lines) ==
    IF lines = <<>> THEN <<>>
    ELSE IF Len(lines) = 1 THEN lines[1]
    ELSE lines[1] \o << "newline" >> \o JoinLines(Tail(lines))

\* the character class and the two garbage patterns
RemoveUnwanted(s) ==
    ReSubRuns(ReSubRuns(SelectSeq(s, LAMBDA c : c # "question"), "question", 4, <<>>),
              "bullet", 4, <<>>)

\* the three whitespace substitutions, in the order of the code
CollapseWhitespace(s) ==
    ReSubRuns(ReSubRuns(ReSubRuns(s, "space", 2, << "space" >>), "tab", 1, << "space" >>),
              "newline", 3, << "newline" >>)

StripLines(lines) == [i \in DOMAIN lines |-> Strip(lines[i])]

clean_text(s) ==
    IF s = <<>> THEN <<>>
    ELSE Strip(JoinLines(SelectSeq(StripLines(SplitLines(CollapseWhitespace(RemoveUnwanted(s)))),
                                   LAMBDA line : line # <<>>)))

\* clean_text on an extracted text, and clean_text again on what it returned
CleanOnce ==
    /\ batPc = "clean"
    /\ batOut' = [exc |-> "none", results |-> clean_text(batFiles)]
    /\ batPc' = "cleaned"
    /\ UNCHANGED <<batEngine, batFiles, batMode, batLang, batIdx, batResults, exceptBat>>
CleanAgain ==
    /\ batPc = "cleaned"
    /\ batResults' = clean_text(batOut.results)
    /\ batPc' = "cleaned-twice"
    /\ UNCHANGED <<batEngine, batFiles, batMode, batLang, batIdx, batOut, exceptBat>>

InitClean ==
    /\ IdleExceptBat
    /\ batEngine = NoEngine /\ batMode = "none" /\ batLang = "none" /\ batIdx = 0
    /\ batResults = <<>> /\ batOut = NoResult
    /\ batPc = "clean"
    /\ batFiles \in CleanInputs
NextClean == CleanOnce \/ CleanAgain
SpecClean == InitClean /\ [][NextClean]_vars

\* C30: clean_text is idempotent: cleaning a cleaned text returns it unchanged,
\* also for texts that mix spaces, tabs and newlines.
C30_CleanTextIdempotent ==
    batPc = "cleaned-twice" => batResults = batOut.results

====
